---- MODULE Spec2Model ----
(***************************************************************************)
(* A model of rdf_dynsyn: the correspondence registry (file extension /    *)
(* media type -> syntax), the run-time selected parser handles, the        *)
(* statement adapters (triples <-> quads) and the serializer factories.    *)
(***************************************************************************)
EXTENDS Integers, Sequences, FiniteSets, TLC

VARIABLES
    tables,      \* the lazily initialised correspondence tables
    resolution,  \* the last resolution request and its result
    threads,     \* the threads that use the tables concurrently
    running,     \* per table: the thread that runs its initialiser, if any
    runs,        \* per table: how many times its initialiser has run
    parser,      \* the last result of try_new_parser
    source,      \* the statement source returned by the last parse()
    engine,      \* the wrapped engine: what it emitted so far, end of input
    sunk,        \* the statements handed to the caller's sink by the source
    last,        \* the result of the last pull on the source
    failed,      \* a pull on the source has returned a source error
    factory,     \* the serializer factory in use
    serializer,  \* the last result of try_new_serializer / try_new_stringifier
    written,     \* the last serialize call on the serializer
    reparsed,    \* the last parse of the document the serializer wrote
    returned     \* the sources that parse() calls on the handle have returned

vars == <<tables, resolution, threads, running, runs, parser, source, engine, sunk, last, failed,
          factory, serializer, written, reparsed, returned>>

registryVars == <<tables, resolution, threads, running, runs>>
parserVars == <<parser, source, engine, sunk, last, failed, returned>>
serializerVars == <<factory, serializer, written, reparsed>>

\* ---------------------------------------------------------------------------
\* Option and Result values
\* ---------------------------------------------------------------------------

\* Option<T>: None is the empty sequence, Some(x) the one-element sequence.
None == <<>>

Some(x) == <<x>>

Ok(v) == [tag |-> "Ok", val |-> v]

Err(e) == [tag |-> "Err", val |-> e]

\* ---------------------------------------------------------------------------
\* Syntaxes (crate::syntax)
\* ---------------------------------------------------------------------------

syntax_HTML_RDFA == "HTML+RDFa"

syntax_JSON_LD == "JSON-LD"

syntax_N3 == "Notation3"

syntax_N_QUADS == "N-Quads"

syntax_N_TRIPLES == "N-Triples"

syntax_OWL2_MANCHESTER == "OWL2 Manchester"

syntax_OWL2_XML == "OWL2 XML"

syntax_RDF_XML == "RDF/XML"

syntax_TRIG == "TriG"

syntax_TURTLE == "Turtle"

syntax_XHTML_RDFA == "XHTML+RDFa"

RdfSyntax ==
    { syntax_HTML_RDFA, syntax_JSON_LD, syntax_N3, syntax_N_QUADS,
      syntax_N_TRIPLES, syntax_OWL2_MANCHESTER, syntax_OWL2_XML,
      syntax_RDF_XML, syntax_TRIG, syntax_TURTLE, syntax_XHTML_RDFA }

\* ---------------------------------------------------------------------------
\* File extensions (file_extension.rs)
\* ---------------------------------------------------------------------------

\* FileExtension(Cow<str>): equality and hashing are those of the string.
from_static(v) == v

\* str::to_lowercase, on the strings of the model.
to_lowercase(v) ==
    CASE v = "TTL" -> "ttl"
      [] v = "Nq" -> "nq"
      [] OTHER -> v

\* A conversion that folds the case of the extension.
FileExtension_from_lowercased(v) == to_lowercase(v)

\* From<T: Into<Cow<str>>> for FileExtension: the string as it is given.
FileExtension_from(v) == v

fextn_HTML == from_static("html")

fextn_JSON == from_static("json")

fextn_JSONLD == from_static("jsonld")

fextn_N3 == from_static("n3")

fextn_NQ == from_static("nq")

fextn_NQUADS == from_static("nquads")

fextn_NT == from_static("nt")

fextn_NTRIPLES == from_static("ttl")

fextn_OMN == from_static("omn")

fextn_OWL == from_static("owl")

fextn_OWX == from_static("owx")

fextn_RDF == from_static("rdf")

fextn_RDFXML == from_static("rdfxml")

fextn_TRIG == from_static("trig")

fextn_TTL == from_static("ttl")

fextn_TURTLE == from_static("turtle")

fextn_XHTML == from_static("xhtml")

\* ---------------------------------------------------------------------------
\* Media types (crate::media_type, mime::Mime)
\* ---------------------------------------------------------------------------

\* A media type: type/subtype and its parameters; Mime equality compares both.
Mime(essence, params) == [essence |-> essence, params |-> params]

media_type_TEXT_HTML == Mime("text/html", "")

media_type_APPLICATION_JSON_LD == Mime("application/ld+json", "")

media_type_TEXT_N3 == Mime("text/n3", "")

media_type_APPLICATION_N_QUADS == Mime("application/n-quads", "")

media_type_APPLICATION_N_TRIPLES == Mime("application/n-triples", "")

media_type_TEXT_OWL_MANCHESTER == Mime("text/owl-manchester", "")

media_type_APPLICATION_OWL_XML == Mime("application/owl+xml", "")

media_type_APPLICATION_RDF_XML == Mime("application/rdf+xml", "")

media_type_APPLICATION_TRIG == Mime("application/trig", "")

media_type_TEXT_TURTLE == Mime("text/turtle", "")

media_type_APPLICATION_XHTML_XML == Mime("application/xhtml+xml", "")

\* ---------------------------------------------------------------------------
\* Correspondence tables (correspondence.rs)
\* ---------------------------------------------------------------------------

Correspondent(value, is_total) == [value |-> value, is_total |-> is_total]

\* An insertion that keeps the entry already stored under an equal key.
insert_keeping_first(map, k, c) ==
    [x \in (DOMAIN map) \cup {k} |-> IF x \in DOMAIN map THEN map[x] ELSE c]

\* HashMap::insert: a later insertion under an equal key replaces the entry.
insert(map, k, c) ==
    [x \in (DOMAIN map) \cup {k} |-> IF x = k THEN c ELSE map[x]]

\* set_correspondence!: the insertions are made in the order written.
RECURSIVE set_correspondence(_, _)
set_correspondence(map, rows) ==
    IF rows = <<>> THEN map
    ELSE set_correspondence(
             insert(map, rows[1][1], Correspondent(rows[1][2], rows[1][3])),
             Tail(rows))

HashMap_new == [x \in {} |-> Correspondent("", FALSE)]

\* The rows with the secondary extension constants of N-Triples and Turtle
\* in the place of the preferred ones.
SYNTAX_TO_EXTENSION_ROWS_with_secondary ==
    << <<syntax_HTML_RDFA, fextn_HTML, TRUE>>,
       <<syntax_JSON_LD, fextn_JSONLD, TRUE>>,
       <<syntax_N3, fextn_N3, TRUE>>,
       <<syntax_N_QUADS, fextn_NQ, TRUE>>,
       <<syntax_N_TRIPLES, fextn_NTRIPLES, TRUE>>,
       <<syntax_OWL2_MANCHESTER, fextn_OMN, TRUE>>,
       <<syntax_OWL2_XML, fextn_OWL, TRUE>>,
       <<syntax_RDF_XML, fextn_RDF, TRUE>>,
       <<syntax_TRIG, fextn_TRIG, TRUE>>,
       <<syntax_TURTLE, fextn_TURTLE, TRUE>>,
       <<syntax_XHTML_RDFA, fextn_XHTML, TRUE>> >>

SYNTAX_TO_EXTENSION_ROWS ==
    << <<syntax_HTML_RDFA, fextn_HTML, TRUE>>,
       <<syntax_JSON_LD, fextn_JSONLD, TRUE>>,
       <<syntax_N3, fextn_N3, TRUE>>,
       <<syntax_N_QUADS, fextn_NQ, TRUE>>,
       <<syntax_N_TRIPLES, fextn_NT, TRUE>>,
       <<syntax_OWL2_MANCHESTER, fextn_OMN, TRUE>>,
       <<syntax_OWL2_XML, fextn_OWL, TRUE>>,
       <<syntax_RDF_XML, fextn_RDF, TRUE>>,
       <<syntax_TRIG, fextn_TRIG, TRUE>>,
       <<syntax_TURTLE, fextn_TTL, TRUE>>,
       <<syntax_XHTML_RDFA, fextn_XHTML, TRUE>> >>

\* A table whose entries carry the totality of the forward entries.
SYNTAX_TO_EXTENSION_CORRESPONDENCE_with_forward_totality ==
    set_correspondence(
        HashMap_new,
        [i \in 1..Len(SYNTAX_TO_EXTENSION_ROWS) |->
            <<SYNTAX_TO_EXTENSION_ROWS[i][1], SYNTAX_TO_EXTENSION_ROWS[i][2],
              SYNTAX_TO_EXTENSION_ROWS[i][1] \notin {syntax_HTML_RDFA, syntax_XHTML_RDFA}>>])

SYNTAX_TO_EXTENSION_CORRESPONDENCE ==
    set_correspondence(HashMap_new, SYNTAX_TO_EXTENSION_ROWS)

EXTENSION_TO_SYNTAX_ROWS ==
    << <<fextn_HTML, syntax_HTML_RDFA, FALSE>>,
       <<fextn_JSONLD, syntax_JSON_LD, TRUE>>,
       <<fextn_JSON, syntax_JSON_LD, FALSE>>,
       <<fextn_N3, syntax_N3, TRUE>>,
       <<fextn_NQ, syntax_N_QUADS, TRUE>>,
       <<fextn_NQUADS, syntax_N_QUADS, TRUE>>,
       <<fextn_NT, syntax_N_TRIPLES, TRUE>>,
       <<fextn_NTRIPLES, syntax_N_TRIPLES, TRUE>>,
       <<fextn_OMN, syntax_OWL2_MANCHESTER, TRUE>>,
       <<fextn_OWL, syntax_OWL2_XML, TRUE>>,
       <<fextn_OWX, syntax_OWL2_XML, TRUE>>,
       <<fextn_RDF, syntax_RDF_XML, TRUE>>,
       <<fextn_RDFXML, syntax_RDF_XML, TRUE>>,
       <<fextn_TRIG, syntax_TRIG, TRUE>>,
       <<fextn_TTL, syntax_TURTLE, TRUE>>,
       <<fextn_TURTLE, syntax_TURTLE, TRUE>>,
       <<fextn_XHTML, syntax_XHTML_RDFA, FALSE>> >>

EXTENSION_TO_SYNTAX_CORRESPONDENCE ==
    set_correspondence(HashMap_new, EXTENSION_TO_SYNTAX_ROWS)

\* The rows with the media types of Turtle and TriG exchanged.
SYNTAX_TO_MEDIA_TYPE_ROWS_exchanged ==
    << <<syntax_HTML_RDFA, media_type_TEXT_HTML, TRUE>>,
       <<syntax_JSON_LD, media_type_APPLICATION_JSON_LD, TRUE>>,
       <<syntax_N3, media_type_TEXT_N3, TRUE>>,
       <<syntax_N_QUADS, media_type_APPLICATION_N_QUADS, TRUE>>,
       <<syntax_N_TRIPLES, media_type_APPLICATION_N_TRIPLES, TRUE>>,
       <<syntax_OWL2_MANCHESTER, media_type_TEXT_OWL_MANCHESTER, TRUE>>,
       <<syntax_OWL2_XML, media_type_APPLICATION_OWL_XML, TRUE>>,
       <<syntax_RDF_XML, media_type_APPLICATION_RDF_XML, TRUE>>,
       <<syntax_TRIG, media_type_TEXT_TURTLE, TRUE>>,
       <<syntax_TURTLE, media_type_APPLICATION_TRIG, TRUE>>,
       <<syntax_XHTML_RDFA, media_type_APPLICATION_XHTML_XML, TRUE>> >>

SYNTAX_TO_MEDIA_TYPE_ROWS ==
    << <<syntax_HTML_RDFA, media_type_TEXT_HTML, TRUE>>,
       <<syntax_JSON_LD, media_type_APPLICATION_JSON_LD, TRUE>>,
       <<syntax_N3, media_type_TEXT_N3, TRUE>>,
       <<syntax_N_QUADS, media_type_APPLICATION_N_QUADS, TRUE>>,
       <<syntax_N_TRIPLES, media_type_APPLICATION_N_TRIPLES, TRUE>>,
       <<syntax_OWL2_MANCHESTER, media_type_TEXT_OWL_MANCHESTER, TRUE>>,
       <<syntax_OWL2_XML, media_type_APPLICATION_OWL_XML, TRUE>>,
       <<syntax_RDF_XML, media_type_APPLICATION_RDF_XML, TRUE>>,
       <<syntax_TRIG, media_type_APPLICATION_TRIG, TRUE>>,
       <<syntax_TURTLE, media_type_TEXT_TURTLE, TRUE>>,
       <<syntax_XHTML_RDFA, media_type_APPLICATION_XHTML_XML, TRUE>> >>

SYNTAX_TO_MEDIA_TYPE_CORRESPONDENCE ==
    set_correspondence(HashMap_new, SYNTAX_TO_MEDIA_TYPE_ROWS)

\* The rows with the syntaxes of application/rdf+xml and application/owl+xml
\* exchanged.
MEDIA_TYPE_TO_SYNTAX_ROWS_exchanged ==
    << <<media_type_TEXT_HTML, syntax_HTML_RDFA, FALSE>>,
       <<media_type_APPLICATION_JSON_LD, syntax_JSON_LD, TRUE>>,
       <<media_type_TEXT_N3, syntax_N3, TRUE>>,
       <<media_type_APPLICATION_N_QUADS, syntax_N_QUADS, TRUE>>,
       <<media_type_APPLICATION_N_TRIPLES, syntax_N_TRIPLES, TRUE>>,
       <<media_type_TEXT_OWL_MANCHESTER, syntax_OWL2_MANCHESTER, TRUE>>,
       <<media_type_APPLICATION_RDF_XML, syntax_OWL2_XML, TRUE>>,
       <<media_type_APPLICATION_OWL_XML, syntax_RDF_XML, TRUE>>,
       <<media_type_APPLICATION_TRIG, syntax_TRIG, TRUE>>,
       <<media_type_TEXT_TURTLE, syntax_TURTLE, TRUE>>,
       <<media_type_APPLICATION_XHTML_XML, syntax_XHTML_RDFA, FALSE>> >>

MEDIA_TYPE_TO_SYNTAX_ROWS ==
    << <<media_type_TEXT_HTML, syntax_HTML_RDFA, FALSE>>,
       <<media_type_APPLICATION_JSON_LD, syntax_JSON_LD, TRUE>>,
       <<media_type_TEXT_N3, syntax_N3, TRUE>>,
       <<media_type_APPLICATION_N_QUADS, syntax_N_QUADS, TRUE>>,
       <<media_type_APPLICATION_N_TRIPLES, syntax_N_TRIPLES, TRUE>>,
       <<media_type_TEXT_OWL_MANCHESTER, syntax_OWL2_MANCHESTER, TRUE>>,
       <<media_type_APPLICATION_RDF_XML, syntax_RDF_XML, TRUE>>,
       <<media_type_APPLICATION_OWL_XML, syntax_OWL2_XML, TRUE>>,
       <<media_type_APPLICATION_TRIG, syntax_TRIG, TRUE>>,
       <<media_type_TEXT_TURTLE, syntax_TURTLE, TRUE>>,
       <<media_type_APPLICATION_XHTML_XML, syntax_XHTML_RDFA, FALSE>> >>

MEDIA_TYPE_TO_SYNTAX_CORRESPONDENCE ==
    set_correspondence(HashMap_new, MEDIA_TYPE_TO_SYNTAX_ROWS)

NonRdfMediaTypeError(media_type) ==
    [error |-> "NonRdfMediaTypeError", key |-> media_type]

NonRdfFileExtensionError(file_extension) ==
    [error |-> "NonRdfFileExtensionError", key |-> file_extension]

\* HashMap::get on a table: Some(entry) or None.
get(map, k) == IF k \in DOMAIN map THEN Some(map[k]) ELSE None

\* A try_from whose error carries the media type without its parameters.
try_from_media_type_dropping_params(map, media_type) ==
    IF get(map, media_type) # None
    THEN Ok(get(map, media_type)[1])
    ELSE Err(NonRdfMediaTypeError(Mime(media_type.essence, "")))

\* TryFrom<&mime::Mime> for Correspondent<RdfSyntax>, on the forced table.
try_from_media_type(map, media_type) ==
    IF get(map, media_type) # None
    THEN Ok(get(map, media_type)[1])
    ELSE Err(NonRdfMediaTypeError(media_type))

\* TryFrom<&FileExtension> for Correspondent<RdfSyntax>, on the forced table.
try_from_file_extension(map, file_extension) ==
    IF get(map, file_extension) # None
    THEN Ok(get(map, file_extension)[1])
    ELSE Err(NonRdfFileExtensionError(file_extension))

\* once_cell Lazy: the initialiser runs at the first dereference only.
Lazy_new == [init |-> FALSE, map |-> HashMap_new]

Lazy_force(cell, initialiser) ==
    IF cell.init THEN cell ELSE [init |-> TRUE, map |-> initialiser]

\* The extension strings and media types that callers resolve.
ExtensionInputs ==
    { "html", "json", "jsonld", "n3", "nq", "nquads", "nt", "ntriples", "omn",
      "owl", "owx", "rdf", "rdfxml", "trig", "ttl", "turtle", "xhtml",
      "png", "pdf", "mp3", "avf", "c", "rs", "TTL", "Nq", "" }

MediaTypeInputs ==
    { media_type_TEXT_HTML, media_type_APPLICATION_JSON_LD, media_type_TEXT_N3,
      media_type_APPLICATION_N_QUADS, media_type_APPLICATION_N_TRIPLES,
      media_type_TEXT_OWL_MANCHESTER, media_type_APPLICATION_OWL_XML,
      media_type_APPLICATION_RDF_XML, media_type_APPLICATION_TRIG,
      media_type_TEXT_TURTLE, media_type_APPLICATION_XHTML_XML,
      Mime("application/pdf", ""), Mime("application/javascript", ""),
      Mime("font/woff", ""), Mime("image/*", ""), Mime("text/csv", ""),
      Mime("application/json", ""), Mime("text/turtle", "charset=utf-8"),
      Mime("application/pdf", "charset=utf-8") }

NoResolution ==
    [kind |-> "none", given |-> "", key |-> "",
     result |-> Ok(Correspondent("", FALSE))]

\* Correspondent::<RdfSyntax>::try_from(&FileExtension::from(string))
ResolveExtension ==
    \E file_extension \in ExtensionInputs :
        LET cell == Lazy_force(tables.extension_to_syntax,
                               EXTENSION_TO_SYNTAX_CORRESPONDENCE)
        IN /\ running.extension_to_syntax = None
           /\ tables' = [tables EXCEPT !.extension_to_syntax = cell]
           /\ resolution' =
                  [kind |-> "extension", given |-> file_extension,
                   key |-> FileExtension_from(file_extension),
                   result |-> try_from_file_extension(
                                  cell.map, FileExtension_from(file_extension))]
           /\ runs' = [runs EXCEPT !.extension_to_syntax =
                          IF tables.extension_to_syntax.init THEN @ ELSE @ + 1]
           /\ UNCHANGED <<threads, running, parserVars, serializerVars>>

\* Correspondent::<RdfSyntax>::try_from(&mime::Mime)
ResolveMediaType ==
    \E media_type \in MediaTypeInputs :
        LET cell == Lazy_force(tables.media_type_to_syntax,
                               MEDIA_TYPE_TO_SYNTAX_CORRESPONDENCE)
        IN /\ running.media_type_to_syntax = None
           /\ tables' = [tables EXCEPT !.media_type_to_syntax = cell]
           /\ resolution' =
                  [kind |-> "media_type", given |-> media_type, key |-> media_type,
                   result |-> try_from_media_type(cell.map, media_type)]
           /\ runs' = [runs EXCEPT !.media_type_to_syntax =
                          IF tables.media_type_to_syntax.init THEN @ ELSE @ + 1]
           /\ UNCHANGED <<threads, running, parserVars, serializerVars>>

\* SYNTAX_TO_EXTENSION_CORRESPONDENCE.get(&syntax)
LookupExtension ==
    \E syntax_ \in RdfSyntax :
        LET cell == Lazy_force(tables.syntax_to_extension,
                               SYNTAX_TO_EXTENSION_CORRESPONDENCE)
        IN /\ running.syntax_to_extension = None
           /\ tables' = [tables EXCEPT !.syntax_to_extension = cell]
           /\ resolution' = [kind |-> "syntax_to_extension",
                             given |-> syntax_, key |-> syntax_,
                             result |-> get(cell.map, syntax_)]
           /\ runs' = [runs EXCEPT !.syntax_to_extension =
                          IF tables.syntax_to_extension.init THEN @ ELSE @ + 1]
           /\ UNCHANGED <<threads, running, parserVars, serializerVars>>

\* SYNTAX_TO_MEDIA_TYPE_CORRESPONDENCE.get(&syntax)
LookupMediaType ==
    \E syntax_ \in RdfSyntax :
        LET cell == Lazy_force(tables.syntax_to_media_type,
                               SYNTAX_TO_MEDIA_TYPE_CORRESPONDENCE)
        IN /\ running.syntax_to_media_type = None
           /\ tables' = [tables EXCEPT !.syntax_to_media_type = cell]
           /\ resolution' = [kind |-> "syntax_to_media_type",
                             given |-> syntax_, key |-> syntax_,
                             result |-> get(cell.map, syntax_)]
           /\ runs' = [runs EXCEPT !.syntax_to_media_type =
                          IF tables.syntax_to_media_type.init THEN @ ELSE @ + 1]
           /\ UNCHANGED <<threads, running, parserVars, serializerVars>>

\* ---------------------------------------------------------------------------
\* The tables under concurrent use (once_cell::sync::Lazy)
\* ---------------------------------------------------------------------------

Threads == {"t1", "t2"}

TableNames ==
    {"extension_to_syntax", "media_type_to_syntax", "syntax_to_extension",
     "syntax_to_media_type"}

\* The rows the initialiser of a table inserts, in its order.
RowsOf(table) ==
    CASE table = "extension_to_syntax" -> EXTENSION_TO_SYNTAX_ROWS
      [] table = "media_type_to_syntax" -> MEDIA_TYPE_TO_SYNTAX_ROWS
      [] table = "syntax_to_extension" -> SYNTAX_TO_EXTENSION_ROWS
      [] table = "syntax_to_media_type" -> SYNTAX_TO_MEDIA_TYPE_ROWS

\* The keys the threads look up in a table.
ThreadKeys(table) ==
    CASE table = "extension_to_syntax" -> {"ttl", "png"}
      [] table = "media_type_to_syntax" ->
             {media_type_TEXT_TURTLE, Mime("application/pdf", "")}
      [] table = "syntax_to_extension" -> {syntax_N_TRIPLES}
      [] table = "syntax_to_media_type" -> {syntax_TRIG}

\* The lookup an operation makes in its table.
LookupIn(table, map, key) ==
    CASE table = "extension_to_syntax" -> try_from_file_extension(map, key)
      [] table = "media_type_to_syntax" -> try_from_media_type(map, key)
      [] table = "syntax_to_extension" -> get(map, key)
      [] table = "syntax_to_media_type" -> get(map, key)

\* The state of the once cell of a table.
OnceState(table) ==
    IF tables[table].init THEN "COMPLETE"
    ELSE IF running[table] # None THEN "RUNNING" ELSE "INCOMPLETE"

\* An initialisation that any thread starts as long as the cell is not
\* complete.
OnceCell_may_initialize_unsynchronised(state) == state # "COMPLETE"

\* OnceCell::initialize: exactly one thread moves the cell from INCOMPLETE to
\* RUNNING and runs the initialiser; the others wait until it is COMPLETE.
OnceCell_may_initialize(state) == state = "INCOMPLETE"

Idle == [pc |-> "idle", table |-> "", key |-> "", waited |-> FALSE,
         map |-> HashMap_new, rows |-> <<>>, seen |-> HashMap_new,
         result |-> None]

\* A thread starts a resolution or a lookup.
Begin(t) ==
    /\ threads[t].pc = "idle"
    /\ \E table \in TableNames :
        \E key \in ThreadKeys(table) :
            threads' = [threads EXCEPT ![t] =
                           [Idle EXCEPT !.pc = "force", !.table = table, !.key = key]]
    /\ UNCHANGED <<tables, resolution, running, runs, parserVars, serializerVars>>

\* The dereference of the Lazy: go on when the table is there, start the
\* initialiser when nobody has, wait otherwise.
Force(t) ==
    /\ threads[t].pc = "force"
    /\ LET table == threads[t].table
       IN \/ /\ tables[table].init
             /\ threads' = [threads EXCEPT ![t].pc = "get"]
             /\ UNCHANGED running
          \/ /\ ~tables[table].init
             /\ OnceCell_may_initialize(OnceState(table))
             /\ running' = [running EXCEPT ![table] = Some(t)]
             /\ threads' = [threads EXCEPT ![t].pc = "init",
                                           ![t].map = HashMap_new,
                                           ![t].rows = RowsOf(table)]
          \/ /\ OnceState(table) = "RUNNING"
             /\ ~threads[t].waited
             /\ threads' = [threads EXCEPT ![t].waited = TRUE]
             /\ UNCHANGED running
    /\ UNCHANGED <<tables, resolution, runs, parserVars, serializerVars>>

\* The initialiser: one insert into its own map per step, then the map
\* becomes the value of the cell.
Initialise(t) ==
    /\ threads[t].pc = "init"
    /\ LET table == threads[t].table
           rows == threads[t].rows
       IN IF rows # <<>>
          THEN /\ threads' =
                      [threads EXCEPT
                          ![t].map = insert(@, rows[1][1],
                                            Correspondent(rows[1][2], rows[1][3])),
                          ![t].rows = Tail(rows)]
               /\ UNCHANGED <<tables, running, runs>>
          ELSE /\ tables' = [tables EXCEPT ![table] =
                                [init |-> TRUE, map |-> threads[t].map]]
               /\ running' = [running EXCEPT ![table] = None]
               /\ runs' = [runs EXCEPT ![table] = @ + 1]
               /\ threads' = [threads EXCEPT ![t].pc = "get",
                                             ![t].map = HashMap_new]
    /\ UNCHANGED <<resolution, parserVars, serializerVars>>

\* The lookup in the table the thread sees.
Get(t) ==
    /\ threads[t].pc = "get"
    /\ LET table == threads[t].table
       IN threads' = [threads EXCEPT
                         ![t].pc = "done",
                         ![t].seen = tables[table].map,
                         ![t].result =
                             Some(LookupIn(table, tables[table].map, threads[t].key))]
    /\ UNCHANGED <<tables, resolution, running, runs, parserVars, serializerVars>>

\* The operation returns.
Return(t) ==
    /\ threads[t].pc = "done"
    /\ threads' = [threads EXCEPT ![t] = Idle]
    /\ UNCHANGED <<tables, resolution, running, runs, parserVars, serializerVars>>

InitRegistry ==
    /\ tables = [extension_to_syntax |-> Lazy_new,
                 media_type_to_syntax |-> Lazy_new,
                 syntax_to_extension |-> Lazy_new,
                 syntax_to_media_type |-> Lazy_new]
    /\ resolution = NoResolution
    /\ threads = [t \in Threads |-> Idle]
    /\ running = [table \in TableNames |-> None]
    /\ runs = [table \in TableNames |-> 0]

\* ---------------------------------------------------------------------------
\* Parser handles (parser/_inner/mod.rs, parser/quads/mod.rs, parser/triples/mod.rs)
\* ---------------------------------------------------------------------------

UnKnownSyntaxError(syntax_) == [error |-> "UnKnownSyntaxError", syntax |-> syntax_]

\* A try_new without the arm for TriG.
InnerParser_try_new_without_trig(syntax_, base_iri) ==
    CASE syntax_ = syntax_N_QUADS -> Ok([variant |-> "NQuads", base |-> None])
      [] syntax_ = syntax_N_TRIPLES -> Ok([variant |-> "NTriples", base |-> None])
      [] syntax_ = syntax_RDF_XML -> Ok([variant |-> "RdfXml", base |-> base_iri])
      [] syntax_ = syntax_TURTLE -> Ok([variant |-> "Turtle", base |-> base_iri])
      [] OTHER -> Err(UnKnownSyntaxError(syntax_))

\* InnerParser::try_new: the sum-parser of a syntax, or UnKnownSyntaxError.
InnerParser_try_new(syntax_, base_iri) ==
    CASE syntax_ = syntax_N_QUADS -> Ok([variant |-> "NQuads", base |-> None])
      [] syntax_ = syntax_N_TRIPLES -> Ok([variant |-> "NTriples", base |-> None])
      [] syntax_ = syntax_RDF_XML -> Ok([variant |-> "RdfXml", base |-> base_iri])
      [] syntax_ = syntax_TRIG -> Ok([variant |-> "TriG", base |-> base_iri])
      [] syntax_ = syntax_TURTLE -> Ok([variant |-> "Turtle", base |-> base_iri])
      [] OTHER -> Err(UnKnownSyntaxError(syntax_))

\* DynSynQuadParser::try_new
DynSynQuadParser_try_new(syntax_, base_iri, triple_source_adapted_graph_iri) ==
    LET inner_parser == InnerParser_try_new(syntax_, base_iri)
    IN IF inner_parser.tag = "Err" THEN inner_parser
       ELSE Ok([type |-> "DynSynQuadParser",
                inner_parser |-> inner_parser.val,
                graph_iri |-> triple_source_adapted_graph_iri])

\* DynSynTripleParser::try_new
DynSynTripleParser_try_new(syntax_, base_iri, quad_source_adapted_graph_iri) ==
    LET inner_parser == InnerParser_try_new(syntax_, base_iri)
    IN IF inner_parser.tag = "Err" THEN inner_parser
       ELSE Ok([type |-> "DynSynTripleParser",
                inner_parser |-> inner_parser.val,
                graph_iri |-> quad_source_adapted_graph_iri])

\* ---------------------------------------------------------------------------
\* Terms and statements
\* ---------------------------------------------------------------------------

\* A term of the engine (RioTermWrapper) and a term of the caller's type T.
RioTerm(value) == [kind |-> "iri", value |-> value, repr |-> "rio"]

TTerm(value) == [kind |-> "iri", value |-> value, repr |-> "T"]

\* CopiableTerm::copied: the same term in the caller's term type.
copied(t) == [kind |-> t.kind, value |-> t.value, repr |-> "T"]

\* sophia_api::term::term_eq: equality of kind and value, whatever the types.
term_eq(a, b) == a.kind = b.kind /\ a.value = b.value

RioQuad(o, g) == [s |-> RioTerm("s1"), p |-> RioTerm("p1"), o |-> RioTerm(o), g |-> g]

RioTriple(o) == [s |-> RioTerm("s1"), p |-> RioTerm("p1"), o |-> RioTerm(o)]

\* The statements the engines emit, and the graph names callers configure.
NativeQuads ==
    { RioQuad("o1", None), RioQuad("o1", Some(RioTerm("g1"))),
      RioQuad("o2", Some(RioTerm("g1"))), RioQuad("o1", Some(RioTerm("g2"))) }

NativeTriples == { RioTriple("o1"), RioTriple("o2") }

GraphIris == { None, Some(TTerm("g1")), Some(TTerm("g2")) }

BaseIris == { None, Some("http://localhost/ex") }

TurtleErrors == { [type |-> "TurtleError", id |-> 1] }

RdfXmlErrors ==
    { [type |-> "RdfXmlError", id |-> 1], [type |-> "RdfXmlError", id |-> 2] }

SinkErrors == { [type |-> "SinkErr", id |-> 1] }

\* Bounds: statements of one document, statements of one engine step.
MaxNative == 3

MaxBatch == 2

Batches(U, n) == UNION { [1..k -> U] : k \in 0..n }

\* ---------------------------------------------------------------------------
\* Error unification (parser/_inner/errors.rs, parser/errors.rs)
\* ---------------------------------------------------------------------------

SourceError(e) == [tag |-> "SourceError", val |-> e]

SinkError(e) == [tag |-> "SinkError", val |-> e]

\* Display of the engines' errors: each error has its own message.
TurtleError_fmt(e) == <<"error while parsing turtle", e.id>>

RdfXmlError_fmt(e) == <<"error while parsing rdf/xml", e.id>>

Error_fmt(e) ==
    IF e.type = "TurtleError" THEN TurtleError_fmt(e) ELSE RdfXmlError_fmt(e)

\* #[error(transparent)] on InnerParseError: Display is the one of the value
\* the variant holds.
InnerParseError_fmt(u) ==
    CASE u.variant = "Turtle" -> TurtleError_fmt(u.inner)
      [] u.variant = "RdfXml" -> RdfXmlError_fmt(u.inner)

\* #[error(transparent)] on SomeHowParseError: Display is the one of the
\* InnerParseError it holds.
SomeHowParseError_fmt(u) == InnerParseError_fmt(u)

\* A conversion that puts every error into the Turtle variant.
into_DynSynParseError_always_turtle(e) == [variant |-> "Turtle", inner |-> e]

\* From<TurtleError> / From<RdfXmlError> for the unified parse error.
into_DynSynParseError(e) ==
    IF e.type = "TurtleError" THEN [variant |-> "Turtle", inner |-> e]
    ELSE [variant |-> "RdfXml", inner |-> e]

\* An adaptation that turns a sink error into a source error.
adapt_quads_stream_error_wrapping_sink(e) ==
    CASE e.tag = "SourceError" -> SourceError(into_DynSynParseError(e.val))
      [] e.tag = "SinkError" -> SourceError([variant |-> "Turtle", inner |-> e.val])

\* adapt_quads_stream_error: only the source error is converted.
adapt_quads_stream_error(e) ==
    CASE e.tag = "SourceError" -> SourceError(into_DynSynParseError(e.val))
      [] e.tag = "SinkError" -> SinkError(e.val)

\* An adaptation that reports the end of the source at every success.
adapt_stream_result_ending_on_success(r) ==
    IF r.tag = "Ok" THEN Ok(FALSE) ELSE adapt_quads_stream_error(r)

\* adapt_stream_result: a success is passed on, an error adapted.
adapt_stream_result(r) ==
    IF r.tag = "Ok" THEN Ok(r.val) ELSE adapt_quads_stream_error(r)

\* ---------------------------------------------------------------------------
\* The wrapped engine (StrictRioSource over a rio parser)
\* ---------------------------------------------------------------------------

\* One parse step of the engine: it hands the statements of the step to the
\* callback one by one and stops at the first callback error; callback[i] is
\* what the callback does with statement i: None when it returns Ok without
\* calling the sink, Some(x) when it calls the sink with x.  The sink fails
\* at its call for statement sink_err_at (0: it never fails).
RECURSIVE parse_step(_, _, _, _, _)
parse_step(callback, i, sink_err_at, sink_err, acc) ==
    IF i > Len(callback) THEN acc
    ELSE LET called == callback[i] # None
             acc2 == [emitted |-> acc.emitted + 1,
                      sunk |-> IF called THEN Append(acc.sunk, callback[i][1])
                               ELSE acc.sunk,
                      result |-> IF called /\ i = sink_err_at
                                 THEN SinkError(sink_err) ELSE Ok(TRUE)]
         IN IF acc2.result.tag # "Ok" THEN acc2
            ELSE parse_step(callback, i + 1, sink_err_at, sink_err, acc2)

\* StrictRioSource::try_for_some_quad / try_for_some_triple: Ok(false) at the
\* end of the input, otherwise one parse step; engine_error is the error the
\* engine meets after the statements of the step (None: the step succeeds).
StrictRioSource_try_for_some(is_end, callback, engine_error, sink_err_at, sink_err) ==
    IF is_end THEN [emitted |-> 0, sunk |-> <<>>, result |-> Ok(FALSE)]
    ELSE LET step == parse_step(callback, 1, sink_err_at, sink_err,
                                [emitted |-> 0, sunk |-> <<>>, result |-> Ok(TRUE)])
         IN IF step.result.tag = "Ok" /\ engine_error # None
            THEN [step EXCEPT !.result = SourceError(engine_error[1])]
            ELSE step

\* ---------------------------------------------------------------------------
\* Statement adapters (parser/quads/source.rs, parser/triples/source.rs)
\* ---------------------------------------------------------------------------

\* A callback that leaves the graph name of the native quad out.
quad_adapted_from_rio_quad_without_graph(q) ==
    Some([spo |-> <<copied(q.s), copied(q.p), copied(q.o)>>, g |-> None])

\* The callback of try_for_some_quad_adapted_from_rio_quad_source.
quad_adapted_from_rio_quad(q) ==
    Some([spo |-> <<copied(q.s), copied(q.p), copied(q.o)>>,
          g |-> IF q.g # None THEN Some(copied(q.g[1])) ELSE None])

\* A callback that leaves the adapted quad in the default graph.
quad_adapted_from_rio_triple_in_default_graph(t, triple_source_graph_iri) ==
    Some([spo |-> <<copied(t.s), copied(t.p), copied(t.o)>>, g |-> None])

\* The callback of try_for_some_quad_adapted_from_rio_triple_source.
quad_adapted_from_rio_triple(t, triple_source_graph_iri) ==
    Some([spo |-> <<copied(t.s), copied(t.p), copied(t.o)>>,
          g |-> triple_source_graph_iri])

\* An in_graph that compares the terms themselves, representation included.
in_graph_by_representation(g, quad_source_adapted_graph_iri) ==
    CASE g # None /\ quad_source_adapted_graph_iri # None ->
             g[1] = quad_source_adapted_graph_iri[1]
      [] g = None /\ quad_source_adapted_graph_iri = None -> TRUE
      [] OTHER -> FALSE

\* in_graph of try_for_some_triple_adapted_from_rio_quad_source.
in_graph(g, quad_source_adapted_graph_iri) ==
    CASE g # None /\ quad_source_adapted_graph_iri # None ->
             term_eq(g[1], quad_source_adapted_graph_iri[1])
      [] g = None /\ quad_source_adapted_graph_iri = None -> TRUE
      [] OTHER -> FALSE

\* A callback that calls the sink for the quads of every graph.
triple_adapted_from_rio_quad_of_any_graph(q, quad_source_adapted_graph_iri) ==
    Some(<<copied(q.s), copied(q.p), copied(q.o)>>)

\* The callback of try_for_some_triple_adapted_from_rio_quad_source.
triple_adapted_from_rio_quad(q, quad_source_adapted_graph_iri) ==
    IF ~in_graph(q.g, quad_source_adapted_graph_iri) THEN None
    ELSE Some(<<copied(q.s), copied(q.p), copied(q.o)>>)

\* The callback of try_for_some_triple_adapted_from_rio_triple_source.
triple_adapted_from_rio_triple(t) ==
    Some(<<copied(t.s), copied(t.p), copied(t.o)>>)

QuadVariants == {"FNQuads", "FTriG"}

TripleVariants == {"FNTriples", "FTurtle", "FRdfXml"}

\* A quad source that hands the statements of a pull over last first.
DynSynQuadSource_try_for_some_quad_last_first(src, is_end, stmts, engine_error, sink_err_at, sink_err) ==
    LET callback == [i \in 1..Len(stmts) |-> quad_adapted_from_rio_quad(stmts[i])]
        raw == StrictRioSource_try_for_some(is_end, callback, engine_error,
                                            sink_err_at, sink_err)
    IN [emitted |-> raw.emitted,
        sunk |-> [i \in 1..Len(raw.sunk) |-> raw.sunk[Len(raw.sunk) + 1 - i]],
        raw |-> raw.result, result |-> adapt_stream_result(raw.result)]

\* QuadSource for DynSynQuadSource: try_for_some_quad
DynSynQuadSource_try_for_some_quad(src, is_end, stmts, engine_error, sink_err_at, sink_err) ==
    LET callback ==
            CASE src.inner_source = "FNQuads" ->
                     [i \in 1..Len(stmts) |-> quad_adapted_from_rio_quad(stmts[i])]
              [] src.inner_source = "FTriG" ->
                     [i \in 1..Len(stmts) |-> quad_adapted_from_rio_quad(stmts[i])]
              [] src.inner_source = "FNTriples" ->
                     [i \in 1..Len(stmts) |->
                         quad_adapted_from_rio_triple(stmts[i], src.graph_iri)]
              [] src.inner_source = "FTurtle" ->
                     [i \in 1..Len(stmts) |->
                         quad_adapted_from_rio_triple(stmts[i], src.graph_iri)]
              [] src.inner_source = "FRdfXml" ->
                     [i \in 1..Len(stmts) |->
                         quad_adapted_from_rio_triple(stmts[i], src.graph_iri)]
        raw == StrictRioSource_try_for_some(is_end, callback, engine_error,
                                            sink_err_at, sink_err)
    IN [emitted |-> raw.emitted, sunk |-> raw.sunk, raw |-> raw.result,
        result |-> adapt_stream_result(raw.result)]

\* A triple source that keeps the last statement of a pull to itself.
DynSynTripleSource_try_for_some_triple_holding_back(src, is_end, stmts, engine_error, sink_err_at, sink_err) ==
    LET callback == [i \in 1..Len(stmts) |-> triple_adapted_from_rio_triple(stmts[i])]
        raw == StrictRioSource_try_for_some(is_end, callback, engine_error,
                                            sink_err_at, sink_err)
    IN [emitted |-> raw.emitted,
        sunk |-> IF raw.sunk = <<>> THEN <<>>
                 ELSE SubSeq(raw.sunk, 1, Len(raw.sunk) - 1),
        raw |-> raw.result, result |-> adapt_stream_result(raw.result)]

\* TripleSource for DynSynTripleSource: try_for_some_triple
DynSynTripleSource_try_for_some_triple(src, is_end, stmts, engine_error, sink_err_at, sink_err) ==
    LET callback ==
            CASE src.inner_source = "FNQuads" ->
                     [i \in 1..Len(stmts) |->
                         triple_adapted_from_rio_quad(stmts[i], src.graph_iri)]
              [] src.inner_source = "FTriG" ->
                     [i \in 1..Len(stmts) |->
                         triple_adapted_from_rio_quad(stmts[i], src.graph_iri)]
              [] src.inner_source = "FNTriples" ->
                     [i \in 1..Len(stmts) |-> triple_adapted_from_rio_triple(stmts[i])]
              [] src.inner_source = "FTurtle" ->
                     [i \in 1..Len(stmts) |-> triple_adapted_from_rio_triple(stmts[i])]
              [] src.inner_source = "FRdfXml" ->
                     [i \in 1..Len(stmts) |-> triple_adapted_from_rio_triple(stmts[i])]
        raw == StrictRioSource_try_for_some(is_end, callback, engine_error,
                                            sink_err_at, sink_err)
    IN [emitted |-> raw.emitted, sunk |-> raw.sunk, raw |-> raw.result,
        result |-> adapt_stream_result(raw.result)]

\* A conversion that takes the Turtle engine for the TriG one.
InnerStatementSource_from_trig_for_turtle(variant) ==
    CASE variant = "NQuads" -> "FNQuads"
      [] variant = "TriG" -> "FTriG"
      [] variant = "NTriples" -> "FNTriples"
      [] variant = "Turtle" -> "FTriG"
      [] variant = "RdfXml" -> "FRdfXml"

\* From<StrictRioSource<..>> for InnerStatementSource: the variant of an engine.
InnerStatementSource_from(variant) ==
    CASE variant = "NQuads" -> "FNQuads"
      [] variant = "TriG" -> "FTriG"
      [] variant = "NTriples" -> "FNTriples"
      [] variant = "Turtle" -> "FTurtle"
      [] variant = "RdfXml" -> "FRdfXml"

\* QuadParser for DynSynQuadParser: parse
DynSynQuadParser_parse(self) ==
    [type |-> "DynSynQuadSource",
     inner_source |-> InnerStatementSource_from(self.inner_parser.variant),
     graph_iri |-> self.graph_iri]

\* A parse that leaves the configured graph name out of the source.
DynSynTripleParser_parse_without_graph(self) ==
    [type |-> "DynSynTripleSource",
     inner_source |-> InnerStatementSource_from(self.inner_parser.variant),
     graph_iri |-> None]

\* TripleParser for DynSynTripleParser: parse
DynSynTripleParser_parse(self) ==
    [type |-> "DynSynTripleSource",
     inner_source |-> InnerStatementSource_from(self.inner_parser.variant),
     graph_iri |-> self.graph_iri]

\* What the engine of a variant can emit and how it can fail.
NativeStatements(inner_source) ==
    IF inner_source \in QuadVariants THEN NativeQuads ELSE NativeTriples

EngineErrors(inner_source) ==
    IF inner_source = "FRdfXml" THEN RdfXmlErrors ELSE TurtleErrors

NoParser ==
    [request |-> [factory |-> "none", syntax |-> "", base_iri |-> None,
                  graph_iri |-> None],
     result |-> [tag |-> "None", val |-> <<>>]]

NoSource == [type |-> "none", inner_source |-> "", graph_iri |-> None]

\* The last pull: its result, the result of the wrapped engine, and what the
\* engine and the sink did in it (script).
NoPull == [result |-> [tag |-> "None", val |-> FALSE],
           raw |-> [tag |-> "None", val |-> FALSE],
           script |-> [emitted |-> 0, engine_error |-> None, sink_err_at |-> 0,
                       sink_err |-> None]]

NewEngine(is_end) == [emitted |-> <<>>, is_end |-> is_end]

\* The sources one handle has returned, each with its own engine over its
\* own input and with what it has handed to its caller's sink.
Slots == {1, 2}

NoReturned == [source |-> NoSource, engine |-> NewEngine(TRUE), sunk |-> <<>>]

\* Bound: statements pulled from each of the sources of one handle.
MaxPulled == 1

InitParser ==
    /\ parser = NoParser
    /\ source = NoSource
    /\ engine = NewEngine(TRUE)
    /\ sunk = <<>>
    /\ last = NoPull
    /\ failed = FALSE
    /\ returned = [i \in Slots |-> NoReturned]

\* DynSynQuadParserFactory::try_new_parser.  Handles are independent values:
\* a behaviour follows one construction call and the handle it returned.
QuadFactoryTryNewParser ==
    /\ parser = NoParser
    /\ \E syntax_ \in RdfSyntax, base_iri \in BaseIris, graph_iri \in GraphIris :
        /\ parser' = [request |-> [factory |-> "quads", syntax |-> syntax_,
                                   base_iri |-> base_iri, graph_iri |-> graph_iri],
                      result |-> DynSynQuadParser_try_new(syntax_, base_iri, graph_iri)]
        /\ UNCHANGED <<source, engine, sunk, last, failed, returned>>
        /\ UNCHANGED <<registryVars, serializerVars>>

\* DynSynTripleParserFactory::try_new_parser
TripleFactoryTryNewParser ==
    /\ parser = NoParser
    /\ \E syntax_ \in RdfSyntax, base_iri \in BaseIris, graph_iri \in GraphIris :
        /\ parser' = [request |-> [factory |-> "triples", syntax |-> syntax_,
                                   base_iri |-> base_iri, graph_iri |-> graph_iri],
                      result |-> DynSynTripleParser_try_new(syntax_, base_iri, graph_iri)]
        /\ UNCHANGED <<source, engine, sunk, last, failed, returned>>
        /\ UNCHANGED <<registryVars, serializerVars>>

\* parse() on the handle: a fresh source over a fresh engine; the input may
\* be empty (the engine is at the end at once).
Parse ==
    /\ parser.result.tag = "Ok"
    /\ \E is_end \in BOOLEAN :
        /\ source' = IF parser.result.val.type = "DynSynQuadParser"
                     THEN DynSynQuadParser_parse(parser.result.val)
                     ELSE DynSynTripleParser_parse(parser.result.val)
        /\ engine' = NewEngine(is_end)
        /\ sunk' = <<>>
        /\ last' = NoPull
        /\ failed' = FALSE
    /\ UNCHANGED <<parser, returned, registryVars, serializerVars>>

\* The effect of one pull whose outcome is out.  stmts are the statements the
\* engine emitted in the step: a step that the callback interrupts emits none
\* after the interruption and does not get to fail by itself.
Pulled(out, stmts, engine_error, sink_err_at, sink_err, eof) ==
    /\ ~engine.is_end => out.emitted = Len(stmts)
    /\ out.raw.tag = "SinkError" => engine_error = None
    /\ engine' = IF engine.is_end THEN engine
                 ELSE [emitted |-> engine.emitted \o SubSeq(stmts, 1, out.emitted),
                       is_end |-> eof]
    /\ sunk' = sunk \o out.sunk
    /\ last' = [result |-> out.result, raw |-> out.raw,
                script |-> [emitted |-> out.emitted, engine_error |-> engine_error,
                            sink_err_at |-> sink_err_at,
                            sink_err |-> IF sink_err_at > 0 THEN Some(sink_err)
                                         ELSE None]]
    /\ failed' = (failed \/ out.result.tag = "SourceError")
    /\ UNCHANGED <<parser, source, returned, registryVars, serializerVars>>

\* One pull: the step the engine makes, and the sink's answers, are free; at
\* the end of the input there is no step.
StepInputs ==
    IF engine.is_end THEN { <<>> }
    ELSE LET room == MaxNative - Len(engine.emitted)
         IN Batches(NativeStatements(source.inner_source),
                    IF room < MaxBatch THEN room ELSE MaxBatch)

EngineErrorInputs ==
    IF engine.is_end THEN { None }
    ELSE {None} \cup {Some(e) : e \in EngineErrors(source.inner_source)}

EofInputs == IF engine.is_end THEN { TRUE } ELSE BOOLEAN

\* try_for_some_quad on the DynSynQuadSource
PullQuads ==
    /\ source.type = "DynSynQuadSource"
    /\ \E stmts \in StepInputs, engine_error \in EngineErrorInputs,
          sink_err \in SinkErrors, eof \in EofInputs :
        \E sink_err_at \in 0..Len(stmts) :
            Pulled(DynSynQuadSource_try_for_some_quad(
                       source, engine.is_end, stmts, engine_error, sink_err_at, sink_err),
                   stmts, engine_error, sink_err_at, sink_err, eof)

\* try_for_some_triple on the DynSynTripleSource
PullTriples ==
    /\ source.type = "DynSynTripleSource"
    /\ \E stmts \in StepInputs, engine_error \in EngineErrorInputs,
          sink_err \in SinkErrors, eof \in EofInputs :
        \E sink_err_at \in 0..Len(stmts) :
            Pulled(DynSynTripleSource_try_for_some_triple(
                       source, engine.is_end, stmts, engine_error, sink_err_at, sink_err),
                   stmts, engine_error, sink_err_at, sink_err, eof)

\* parse(&self, data) called again on the handle: one more source, over the
\* input given in this call.
ParseOne(i) ==
    /\ parser.result.tag = "Ok"
    /\ \E is_end \in BOOLEAN :
        returned' =
            [returned EXCEPT ![i] =
                [source |-> IF parser.result.val.type = "DynSynQuadParser"
                            THEN DynSynQuadParser_parse(parser.result.val)
                            ELSE DynSynTripleParser_parse(parser.result.val),
                 engine |-> NewEngine(is_end),
                 sunk |-> <<>>]]
    /\ UNCHANGED <<parser, source, engine, sunk, last, failed>>
    /\ UNCHANGED <<registryVars, serializerVars>>

\* A pull on one of the sources the handle has returned.
PullOne(i) ==
    /\ returned[i].source.type # "none"
    /\ LET r == returned[i]
           room == MaxPulled - Len(r.engine.emitted)
       IN \E stmts \in (IF r.engine.is_end THEN { <<>> }
                        ELSE Batches(NativeStatements(r.source.inner_source),
                                     IF room < MaxBatch THEN room ELSE MaxBatch)),
             engine_error \in (IF r.engine.is_end THEN { None }
                               ELSE {None} \cup {Some(e) : e \in EngineErrors(r.source.inner_source)}),
             sink_err \in SinkErrors,
             eof \in (IF r.engine.is_end THEN { TRUE } ELSE BOOLEAN) :
            \E sink_err_at \in 0..Len(stmts) :
                LET out == IF r.source.type = "DynSynQuadSource"
                           THEN DynSynQuadSource_try_for_some_quad(
                                    r.source, r.engine.is_end, stmts, engine_error,
                                    sink_err_at, sink_err)
                           ELSE DynSynTripleSource_try_for_some_triple(
                                    r.source, r.engine.is_end, stmts, engine_error,
                                    sink_err_at, sink_err)
                IN /\ ~r.engine.is_end => out.emitted = Len(stmts)
                   /\ out.raw.tag = "SinkError" => engine_error = None
                   /\ returned' =
                          [returned EXCEPT ![i] =
                              [source |-> r.source,
                               engine |-> IF r.engine.is_end THEN r.engine
                                          ELSE [emitted |-> r.engine.emitted
                                                            \o SubSeq(stmts, 1, out.emitted),
                                                is_end |-> eof],
                               sunk |-> r.sunk \o out.sunk]]
    /\ UNCHANGED <<parser, source, engine, sunk, last, failed>>
    /\ UNCHANGED <<registryVars, serializerVars>>

\* ---------------------------------------------------------------------------
\* Serializer factories (serializer/quads/mod.rs, serializer/triples/mod.rs)
\* ---------------------------------------------------------------------------

ConfigTypes == {"NqConfig", "TrigConfig", "NtConfig", "TurtleConfig", "RdfXmlConfig"}

\* A configuration value of an engine; Default::default() is not pretty.
Config(type, pretty) == [type |-> type, pretty |-> pretty]

Config_default(type) == Config(type, FALSE)

\* type_map TypeMap: at most one value per type, stored under its own type.
TypeMap_new == [t \in {} |-> Config_default(t)]

\* Bound: configuration values registered in one registry.
MaxRegistered == 2

TypeMaps ==
    UNION { [ts -> BOOLEAN] :
                ts \in { x \in SUBSET ConfigTypes : Cardinality(x) <= MaxRegistered } }

TypeMap_of(pretty_of) == [t \in DOMAIN pretty_of |-> Config(t, pretty_of[t])]

\* DynSynQuadSerializerFactory::new
DynSynQuadSerializerFactory_new(serializer_config_map) ==
    [type |-> "DynSynQuadSerializerFactory",
     serializer_config_map |-> IF serializer_config_map # None
                               THEN serializer_config_map[1] ELSE TypeMap_new]

\* DynSynTripleSerializerFactory::new
DynSynTripleSerializerFactory_new(serializer_config_map) ==
    [type |-> "DynSynTripleSerializerFactory",
     serializer_config_map |-> IF serializer_config_map # None
                               THEN serializer_config_map[1] ELSE TypeMap_new]

\* A get_config that never looks into the registry.
get_config_ignoring_registry(self, T) == Config_default(T)

\* get_config::<T>: the registered value of type T, or T's default.
get_config(self, T) ==
    IF T \in DOMAIN self.serializer_config_map
    THEN self.serializer_config_map[T] ELSE Config_default(T)

\* A try_new_serializer of the quad factory that also accepts Turtle.
DynSynQuadSerializerFactory_try_new_serializer_with_turtle(self, syntax_, write) ==
    CASE syntax_ = syntax_N_QUADS ->
             Ok([type |-> "DynSynQuadSerializer", variant |-> "NQuads",
                 config |-> get_config(self, "NqConfig"), write |-> write])
      [] syntax_ = syntax_TRIG \/ syntax_ = syntax_TURTLE ->
             Ok([type |-> "DynSynQuadSerializer", variant |-> "Trig",
                 config |-> get_config(self, "TrigConfig"), write |-> write])
      [] OTHER -> Err(UnKnownSyntaxError(syntax_))

\* DynSynQuadSerializerFactory::try_new_serializer
DynSynQuadSerializerFactory_try_new_serializer(self, syntax_, write) ==
    CASE syntax_ = syntax_N_QUADS ->
             Ok([type |-> "DynSynQuadSerializer", variant |-> "NQuads",
                 config |-> get_config(self, "NqConfig"), write |-> write])
      [] syntax_ = syntax_TRIG ->
             Ok([type |-> "DynSynQuadSerializer", variant |-> "Trig",
                 config |-> get_config(self, "TrigConfig"), write |-> write])
      [] OTHER -> Err(UnKnownSyntaxError(syntax_))

\* DynSynTripleSerializerFactory::try_new_serializer
DynSynTripleSerializerFactory_try_new_serializer(self, syntax_, write) ==
    CASE syntax_ = syntax_N_TRIPLES ->
             Ok([type |-> "DynSynTripleSerializer", variant |-> "NTriples",
                 config |-> get_config(self, "NtConfig"), write |-> write])
      [] syntax_ = syntax_TURTLE ->
             Ok([type |-> "DynSynTripleSerializer", variant |-> "Turtle",
                 config |-> get_config(self, "TurtleConfig"), write |-> write])
      [] syntax_ = syntax_RDF_XML ->
             Ok([type |-> "DynSynTripleSerializer", variant |-> "RdfXml",
                 config |-> get_config(self, "RdfXmlConfig"), write |-> write])
      [] OTHER -> Err(UnKnownSyntaxError(syntax_))

\* An output sink: a caller's writer, or the Vec<u8> of a stringifier.
Writer(kind) == [kind |-> kind, bytes |-> <<>>]

Vec_new == Writer("Vec")

\* DynSynQuadSerializerFactory::try_new_stringifier
DynSynQuadSerializerFactory_try_new_stringifier(self, syntax_) ==
    DynSynQuadSerializerFactory_try_new_serializer(self, syntax_, Vec_new)

\* DynSynTripleSerializerFactory::try_new_stringifier
DynSynTripleSerializerFactory_try_new_stringifier(self, syntax_) ==
    DynSynTripleSerializerFactory_try_new_serializer(self, syntax_, Vec_new)

NoFactory == [type |-> "none", serializer_config_map |-> TypeMap_new]

NoSerializer ==
    [request |-> [method |-> "none", syntax |-> ""],
     result |-> [tag |-> "None", val |-> <<>>]]

\* The last serialize call on the serializer: what its source yielded, how
\* the source and the writer behaved, the engine's result and the result.
NoWritten ==
    [input |-> <<>>, source_fails |-> FALSE, io_err_at |-> 0,
     raw |-> [tag |-> "None", val |-> ""], result |-> [tag |-> "None", val |-> ""]]

\* The last parse of the written document: its statements and its result.
NoReparsed == [result |-> [tag |-> "None", val |-> FALSE], statements |-> {}]

InitSerializer ==
    /\ factory = NoFactory
    /\ serializer = NoSerializer
    /\ written = NoWritten
    /\ reparsed = NoReparsed

\* DynSynQuadSerializerFactory::new(None | Some(config map)).  Factories are
\* independent values: a behaviour follows one factory.
NewQuadSerializerFactory ==
    /\ factory = NoFactory
    /\ \E m \in {None} \cup {Some(TypeMap_of(f)) : f \in TypeMaps} :
        /\ factory' = DynSynQuadSerializerFactory_new(m)
        /\ serializer' = NoSerializer
        /\ written' = NoWritten
        /\ reparsed' = NoReparsed
        /\ UNCHANGED <<registryVars, parserVars>>

\* DynSynTripleSerializerFactory::new(None | Some(config map))
NewTripleSerializerFactory ==
    /\ factory = NoFactory
    /\ \E m \in {None} \cup {Some(TypeMap_of(f)) : f \in TypeMaps} :
        /\ factory' = DynSynTripleSerializerFactory_new(m)
        /\ serializer' = NoSerializer
        /\ written' = NoWritten
        /\ reparsed' = NoReparsed
        /\ UNCHANGED <<registryVars, parserVars>>

\* try_new_serializer(syntax_, write) on the factory in use; serializers are
\* independent values: a behaviour follows one of them.
TryNewSerializer ==
    /\ factory.type # "none"
    /\ serializer = NoSerializer
    /\ \E syntax_ \in RdfSyntax :
        /\ serializer' =
               [request |-> [method |-> "try_new_serializer", syntax |-> syntax_],
                result |-> IF factory.type = "DynSynQuadSerializerFactory"
                           THEN DynSynQuadSerializerFactory_try_new_serializer(
                                    factory, syntax_, Writer("Write"))
                           ELSE DynSynTripleSerializerFactory_try_new_serializer(
                                    factory, syntax_, Writer("Write"))]
        /\ written' = NoWritten
        /\ reparsed' = NoReparsed
        /\ UNCHANGED <<factory, registryVars, parserVars>>

\* try_new_stringifier(syntax_) on the factory in use; serializers are
\* independent values: a behaviour follows one of them.
TryNewStringifier ==
    /\ factory.type # "none"
    /\ serializer = NoSerializer
    /\ \E syntax_ \in RdfSyntax :
        /\ serializer' =
               [request |-> [method |-> "try_new_stringifier", syntax |-> syntax_],
                result |-> IF factory.type = "DynSynQuadSerializerFactory"
                           THEN DynSynQuadSerializerFactory_try_new_stringifier(
                                    factory, syntax_)
                           ELSE DynSynTripleSerializerFactory_try_new_stringifier(
                                    factory, syntax_)]
        /\ written' = NoWritten
        /\ reparsed' = NoReparsed
        /\ UNCHANGED <<factory, registryVars, parserVars>>

\* ---------------------------------------------------------------------------
\* Serialization (serializer/quads/mod.rs, serializer/triples/mod.rs) and the
\* engines it selects; parsing a written document back
\* ---------------------------------------------------------------------------

\* Terms of the caller's dataset: IRIs and a blank node.
Iri(value) == [kind |-> "iri", value |-> value, repr |-> "T"]

BNode(label) == [kind |-> "bnode", value |-> label, repr |-> "T"]

\* The statements callers serialize, in the order their source yields them.
DatasetQuads ==
    << [spo |-> <<BNode("b1"), Iri("p1"), Iri("o1")>>, g |-> None],
       [spo |-> <<Iri("s1"), Iri("p1"), BNode("b1")>>, g |-> Some(Iri("g1"))],
       [spo |-> <<Iri("s1"), Iri("p1"), Iri("o1")>>, g |-> Some(Iri("g1"))] >>

GraphTriples ==
    << <<BNode("b1"), Iri("p1"), Iri("o1")>>,
       <<Iri("s1"), Iri("p1"), BNode("b1")>>,
       <<Iri("s1"), Iri("p1"), Iri("o1")>> >>

\* The statements of the universe u whose index is in I, in u's order.
RECURSIVE Ordered(_, _, _)
Ordered(I, u, i) ==
    IF i > Len(u) THEN <<>>
    ELSE (IF i \in I THEN <<u[i]>> ELSE <<>>) \o Ordered(I, u, i + 1)

SourceErrors == { [type |-> "SourceErr", id |-> 1] }

IoErrors == { [type |-> "io::Error", id |-> 1] }

\* What an engine writes for a term.
Token(t) == [kind |-> t.kind, text |-> t.value]

RECURSIVE Distinct(_)
Distinct(seq) ==
    IF seq = <<>> THEN <<>>
    ELSE LET rest == Distinct(SubSeq(seq, 1, Len(seq) - 1))
             x == seq[Len(seq)]
         IN IF \E i \in DOMAIN rest : rest[i] = x THEN rest ELSE Append(rest, x)

\* One line "s p o [g] ." of N-Triples, N-Quads and plain Turtle.
Line(spo, g) ==
    [form |-> "line", s |-> Token(spo[1]), p |-> Token(spo[2]), o |-> Token(spo[3]),
     g |-> IF g = None THEN None ELSE Some(Token(g[1]))]

\* The triples grouped by subject, "s p o ; p o .".
SubjectGroups(triples) ==
    LET subjects == Distinct([i \in DOMAIN triples |-> triples[i][1]])
    IN [k \in DOMAIN subjects |->
           LET mine == SelectSeq(triples, LAMBDA t : t[1] = subjects[k])
           IN [form |-> "subject", s |-> Token(subjects[k]),
               pos |-> Distinct([i \in DOMAIN mine |->
                                    <<Token(mine[i][2]), Token(mine[i][3])>>])]]

\* The quads grouped by graph name, "GRAPH g { ... }".
GraphBlocks(quads) ==
    LET graphs == Distinct([i \in DOMAIN quads |-> quads[i].g])
    IN [k \in DOMAIN graphs |->
           LET mine == SelectSeq(quads, LAMBDA q : q.g = graphs[k])
           IN [form |-> "graph",
               g |-> IF graphs[k] = None THEN None ELSE Some(Token(graphs[k][1])),
               body |-> SubjectGroups([i \in DOMAIN mine |-> mine[i].spo])]]

\* What each engine writes for the statements of its source: a head, the
\* statements, a tail; a pretty engine reads its whole source first.
NqSerializer_document(config, quads) ==
    [head |-> <<>>, body |-> [i \in DOMAIN quads |-> Line(quads[i].spo, quads[i].g)],
     tail |-> <<>>, collects |-> FALSE]

TrigSerializer_document(config, quads) ==
    [head |-> <<>>,
     body |-> IF config.pretty THEN GraphBlocks(quads)
              ELSE [i \in DOMAIN quads |-> GraphBlocks(<<quads[i]>>)[1]],
     tail |-> <<>>, collects |-> config.pretty]

NtSerializer_document(config, triples) ==
    [head |-> <<>>, body |-> [i \in DOMAIN triples |-> Line(triples[i], None)],
     tail |-> <<>>, collects |-> FALSE]

TurtleSerializer_document(config, triples) ==
    [head |-> <<>>,
     body |-> IF config.pretty THEN SubjectGroups(triples)
              ELSE [i \in DOMAIN triples |-> Line(triples[i], None)],
     tail |-> <<>>, collects |-> config.pretty]

RdfXmlSerializer_document(config, triples) ==
    [head |-> << [form |-> "rdf:RDF"] >>,
     body |-> [i \in DOMAIN triples |->
                  [form |-> "rdf:Description", s |-> Token(triples[i][1]),
                   p |-> Token(triples[i][2]), o |-> Token(triples[i][3])]],
     tail |-> << [form |-> "/rdf:RDF"] >>, collects |-> FALSE]

\* The engine's serialize_quads / serialize_triples: it writes the document
\* chunk by chunk; the writer fails at chunk io_err_at (0: never), the source
\* fails after its statements when source_fails.  Nothing written is undone.
Engine_serialize(doc, source_fails, source_err, io_err_at, io_err) ==
    LET streamed == doc.head \o doc.body
        whole == streamed \o doc.tail
    IN CASE doc.collects /\ source_fails ->
                [bytes |-> <<>>, result |-> SourceError(source_err)]
         [] ~doc.collects /\ io_err_at \in 1..Len(streamed) ->
                [bytes |-> SubSeq(streamed, 1, io_err_at - 1),
                 result |-> SinkError(io_err)]
         [] ~doc.collects /\ source_fails ->
                [bytes |-> streamed, result |-> SourceError(source_err)]
         [] io_err_at \in 1..Len(whole) ->
                [bytes |-> SubSeq(whole, 1, io_err_at - 1),
                 result |-> SinkError(io_err)]
         [] OTHER -> [bytes |-> whole, result |-> Ok("engine")]

\* A serialize that reports every failure of the engine as a sink error.
DynSyn_serialize_result_as_sink_error(r) ==
    IF r.tag = "Ok" THEN Ok("self") ELSE SinkError(r.val)

\* match s.serialize_quads(source) { Ok(_) => Ok(self), Err(e) => Err(e) }
DynSyn_serialize_result(r) ==
    IF r.tag = "Ok" THEN Ok("self") ELSE r

\* A serialize_quads that writes with the TriG engine whatever the variant.
DynSynQuadSerializer_serialize_quads_as_trig(self, quads, source_fails, source_err, io_err_at, io_err) ==
    LET raw == Engine_serialize(TrigSerializer_document(self.config, quads),
                                source_fails, source_err, io_err_at, io_err)
    IN [self |-> [self EXCEPT !.write.bytes = @ \o raw.bytes],
        raw |-> raw.result, result |-> DynSyn_serialize_result(raw.result)]

\* QuadSerializer for DynSynQuadSerializer: serialize_quads
DynSynQuadSerializer_serialize_quads(self, quads, source_fails, source_err, io_err_at, io_err) ==
    LET raw ==
            CASE self.variant = "NQuads" ->
                     Engine_serialize(NqSerializer_document(self.config, quads),
                                      source_fails, source_err, io_err_at, io_err)
              [] self.variant = "Trig" ->
                     Engine_serialize(TrigSerializer_document(self.config, quads),
                                      source_fails, source_err, io_err_at, io_err)
    IN [self |-> [self EXCEPT !.write.bytes = @ \o raw.bytes],
        raw |-> raw.result, result |-> DynSyn_serialize_result(raw.result)]

\* TripleSerializer for DynSynTripleSerializer: serialize_triples
DynSynTripleSerializer_serialize_triples(self, triples, source_fails, source_err, io_err_at, io_err) ==
    LET raw ==
            CASE self.variant = "NTriples" ->
                     Engine_serialize(NtSerializer_document(self.config, triples),
                                      source_fails, source_err, io_err_at, io_err)
              [] self.variant = "Turtle" ->
                     Engine_serialize(TurtleSerializer_document(self.config, triples),
                                      source_fails, source_err, io_err_at, io_err)
              [] self.variant = "RdfXml" ->
                     Engine_serialize(RdfXmlSerializer_document(self.config, triples),
                                      source_fails, source_err, io_err_at, io_err)
    IN [self |-> [self EXCEPT !.write.bytes = @ \o raw.bytes],
        raw |-> raw.result, result |-> DynSyn_serialize_result(raw.result)]

\* The blank node labels a parsing engine gives to the labels of a document:
\* it keeps them or makes its own.
BNodeLabels == {"b1"}

Relabellings ==
    { [l \in BNodeLabels |-> l], [l \in BNodeLabels |-> "riog1"] }

RioTermOf(token, labels) ==
    [kind |-> token.kind,
     value |-> IF token.kind = "bnode" THEN labels[token.text] ELSE token.text,
     repr |-> "rio"]

RioTriplesOf(group, labels) ==
    [i \in DOMAIN group.pos |->
        [s |-> RioTermOf(group.s, labels), p |-> RioTermOf(group.pos[i][1], labels),
         o |-> RioTermOf(group.pos[i][2], labels)]]

RECURSIVE Flatten(_)
Flatten(seqs) == IF seqs = <<>> THEN <<>> ELSE Head(seqs) \o Flatten(Tail(seqs))

InGraph(triples, g) ==
    [i \in DOMAIN triples |->
        [s |-> triples[i].s, p |-> triples[i].p, o |-> triples[i].o, g |-> g]]

\* The statements a parsing engine reads from one chunk of a document: None
\* when the chunk is not of the engine's syntax.
ChunkStatements(variant, chunk, labels) ==
    LET line == [s |-> RioTermOf(chunk.s, labels), p |-> RioTermOf(chunk.p, labels),
                 o |-> RioTermOf(chunk.o, labels)]
        graph_name == IF chunk.g = None THEN None
                      ELSE Some(RioTermOf(chunk.g[1], labels))
    IN CASE variant = "NQuads" /\ chunk.form = "line" ->
                Some(InGraph(<<line>>, graph_name))
         [] variant = "NTriples" /\ chunk.form = "line" ->
                IF chunk.g = None THEN Some(<<line>>) ELSE None
         [] variant = "Turtle" /\ chunk.form = "line" ->
                IF chunk.g = None THEN Some(<<line>>) ELSE None
         [] variant = "Turtle" /\ chunk.form = "subject" ->
                Some(RioTriplesOf(chunk, labels))
         [] variant = "TriG" /\ chunk.form = "line" ->
                IF chunk.g = None THEN Some(InGraph(<<line>>, None)) ELSE None
         [] variant = "TriG" /\ chunk.form = "subject" ->
                Some(InGraph(RioTriplesOf(chunk, labels), None))
         [] variant = "TriG" /\ chunk.form = "graph" ->
                Some(InGraph(Flatten([k \in DOMAIN chunk.body |->
                                         RioTriplesOf(chunk.body[k], labels)]),
                             graph_name))
         [] variant = "RdfXml" /\ chunk.form = "rdf:Description" ->
                Some(<<line>>)
         [] variant = "RdfXml" /\ chunk.form \in {"rdf:RDF", "/rdf:RDF"} ->
                Some(<<>>)
         [] OTHER -> None

\* An RDF/XML document has its root element opened first and closed last.
WellFormed(variant, bytes) ==
    variant = "RdfXml" =>
        /\ Len(bytes) >= 2
        /\ bytes[1].form = "rdf:RDF"
        /\ bytes[Len(bytes)].form = "/rdf:RDF"
        /\ \A i \in 2..(Len(bytes) - 1) : bytes[i].form = "rdf:Description"

\* collect_quads / collect_triples on the source of parse(bytes): pulls until
\* a pull returns Ok(false) or an error; the engine reads one chunk per pull.
RECURSIVE Collect(_, _, _, _, _, _)
Collect(src, variant, bytes, labels, i, acc) ==
    LET at_end == i > Len(bytes)
        read == IF at_end THEN Some(<<>>)
                ELSE IF ~WellFormed(variant, bytes) THEN None
                ELSE ChunkStatements(variant, bytes[i], labels)
        engine_error == IF read = None
                        THEN Some(CHOOSE e \in EngineErrors(src.inner_source) : TRUE)
                        ELSE None
        stmts == IF read = None THEN <<>> ELSE read[1]
        sink_err == CHOOSE e \in SinkErrors : TRUE
        out == IF src.type = "DynSynQuadSource"
               THEN DynSynQuadSource_try_for_some_quad(
                        src, at_end, stmts, engine_error, 0, sink_err)
               ELSE DynSynTripleSource_try_for_some_triple(
                        src, at_end, stmts, engine_error, 0, sink_err)
    IN IF out.result = Ok(TRUE)
       THEN Collect(src, variant, bytes, labels, i + 1, acc \o out.sunk)
       ELSE [result |-> out.result, sunk |-> acc \o out.sunk]

\* parser.parse(bytes).collect_quads() / collect_triples() with the parser of
\* a factory for the syntax.
ParseDocument(parser_result, bytes, labels) ==
    IF parser_result.tag # "Ok" THEN [result |-> parser_result, sunk |-> <<>>]
    ELSE LET p == parser_result.val
             src == IF p.type = "DynSynQuadParser" THEN DynSynQuadParser_parse(p)
                    ELSE DynSynTripleParser_parse(p)
         IN Collect(src, p.inner_parser.variant, bytes, labels, 1, <<>>)

\* serialize_quads / serialize_triples on the serializer in use; a behaviour
\* follows one call on each serializer.
Serialize ==
    /\ serializer.result.tag = "Ok"
    /\ written = NoWritten
    /\ \E I \in SUBSET (1..3), source_fails \in BOOLEAN,
          source_err \in SourceErrors, io_err \in IoErrors :
        LET self == serializer.result.val
            quads == self.type = "DynSynQuadSerializer"
            input == IF quads THEN Ordered(I, DatasetQuads, 1)
                     ELSE Ordered(I, GraphTriples, 1)
        IN \E io_err_at \in 0..(Len(input) + 2) :
            LET out == IF quads
                       THEN DynSynQuadSerializer_serialize_quads(
                                self, input, source_fails, source_err, io_err_at, io_err)
                       ELSE DynSynTripleSerializer_serialize_triples(
                                self, input, source_fails, source_err, io_err_at, io_err)
            IN /\ serializer' = [serializer EXCEPT !.result.val = out.self]
               /\ written' = [input |-> input, source_fails |-> source_fails,
                              io_err_at |-> IF out.raw.tag = "SinkError"
                                            THEN io_err_at ELSE 0,
                              raw |-> out.raw, result |-> out.result]
               /\ reparsed' = NoReparsed
    /\ UNCHANGED <<factory, registryVars, parserVars>>

\* The document of a successful serialize is parsed with a parser for the
\* same syntax and the statements are collected.
ParseBack ==
    /\ written.result.tag = "Ok"
    /\ \E base_iri \in BaseIris, graph_iri \in GraphIris, labels \in Relabellings :
        LET syntax_ == serializer.request.syntax
            parser_result ==
                IF factory.type = "DynSynQuadSerializerFactory"
                THEN DynSynQuadParser_try_new(syntax_, base_iri, graph_iri)
                ELSE DynSynTripleParser_try_new(syntax_, base_iri, graph_iri)
            out == ParseDocument(parser_result, serializer.result.val.write.bytes, labels)
        IN reparsed' = [result |-> out.result,
                        statements |-> { out.sunk[i] : i \in DOMAIN out.sunk }]
    /\ UNCHANGED <<factory, serializer, written, registryVars, parserVars>>

\* ---------------------------------------------------------------------------
\* Specifications
\* ---------------------------------------------------------------------------

Init == InitRegistry /\ InitParser /\ InitSerializer

NextRegistry ==
    \/ ResolveExtension
    \/ ResolveMediaType
    \/ LookupExtension
    \/ LookupMediaType

NextConcurrent ==
    \E t \in Threads :
        \/ Begin(t)
        \/ Force(t)
        \/ Initialise(t)
        \/ Get(t)
        \/ Return(t)

NextSources ==
    \/ QuadFactoryTryNewParser
    \/ TripleFactoryTryNewParser
    \/ \E i \in Slots : ParseOne(i)
    \/ \E i \in Slots : PullOne(i)

NextParser ==
    \/ QuadFactoryTryNewParser
    \/ TripleFactoryTryNewParser
    \/ Parse
    \/ PullQuads
    \/ PullTriples

NextSerializer ==
    \/ NewQuadSerializerFactory
    \/ NewTripleSerializerFactory
    \/ TryNewSerializer
    \/ TryNewStringifier
    \/ Serialize
    \/ ParseBack

Next == NextRegistry \/ NextConcurrent \/ NextParser \/ NextSources \/ NextSerializer

\* The whole library.
Spec == Init /\ [][Next]_vars

\* The correspondence registry alone.
SpecRegistry == Init /\ [][NextRegistry]_vars

\* The parser factories, handles and statement sources alone.
SpecParser == Init /\ [][NextParser]_vars

\* The serializer factories alone.
SpecSerializer == Init /\ [][NextSerializer]_vars

\* A pull has been made in the step, on the source of the state (a fresh
\* source has no last pull).
PullStep == last'.result.tag # "None" /\ (last' # last \/ engine' # engine)

\* A pull can change the state: there is a source, and it has not yet
\* answered Ok(false) at the end of its input.
PullEnabled ==
    /\ source.type # "none"
    /\ ~(engine.is_end /\ last.result = [tag |-> "Ok", val |-> FALSE])

\* One parser handle and the sources that parse() calls on it return.
SpecSources == Init /\ [][NextSources]_vars

\* The correspondence tables used by several threads at once.
SpecConcurrent == Init /\ [][NextConcurrent]_vars

\* Parsers and sources whose caller keeps pulling: weak fairness of the pull
\* (WF_vars(PullQuads \/ PullTriples), with the enabling condition and the
\* step written out).
SpecParserFair == SpecParser /\ ([]<><<PullStep>>_vars \/ []<>~PullEnabled)

\* ---------------------------------------------------------------------------
\* Properties
\* ---------------------------------------------------------------------------

\* The syntaxes that have a parsing engine.
ParserSyntaxes == {"N-Quads", "N-Triples", "Turtle", "TriG", "RDF/XML"}

\* C1: in both parser factories try_new_parser succeeds exactly for N-Quads,
\* N-Triples, Turtle, TriG and RDF/XML, whatever base_iri and graph_name are;
\* for any other syntax the result is an UnKnownSyntaxError that carries the
\* requested syntax, and there is no handle.
C1_ParserConstruction ==
    parser.request.factory # "none" =>
        /\ parser.result.tag = "Ok" <=> parser.request.syntax \in ParserSyntaxes
        /\ parser.result.tag # "Ok" =>
               parser.result =
                   [tag |-> "Err",
                    val |-> [error |-> "UnKnownSyntaxError",
                             syntax |-> parser.request.syntax]]
        /\ parser.result.tag = "Ok" =>
               parser.result.val.type =
                   IF parser.request.factory = "quads" THEN "DynSynQuadParser"
                   ELSE "DynSynTripleParser"

C1_Witness ==
    /\ parser.request.factory = "triples"
    /\ parser.request.syntax = "JSON-LD"
    /\ parser.request.base_iri # <<>>
    /\ parser.request.graph_iri # <<>>
    /\ parser.result.tag = "Err"

\* The value of a term, whatever its representation, and the term in the
\* caller's term type.
ValueOf(t) == <<t.kind, t.value>>

InT(t) == [kind |-> t.kind, value |-> t.value, repr |-> "T"]

SameGraphName(g, G) ==
    \/ g = <<>> /\ G = <<>>
    \/ g # <<>> /\ G # <<>> /\ ValueOf(g[1]) = ValueOf(G[1])

TripleOf(st) == <<InT(st.s), InT(st.p), InT(st.o)>>

QuadOf(st, G) == [spo |-> TripleOf(st), g |-> G]

TripleSourceOverQuadEngine ==
    source.type = "DynSynTripleSource" /\ source.inner_source \in {"FNQuads", "FTriG"}

QuadSourceOverTripleEngine ==
    /\ source.type = "DynSynQuadSource"
    /\ source.inner_source \in {"FNTriples", "FTurtle", "FRdfXml"}

\* The statements the engine emitted in the last pull.
LastEmitted ==
    SubSeq(engine.emitted, Len(engine.emitted) - last.script.emitted + 1,
           Len(engine.emitted))

\* C2: a triple source over a quad engine with configured graph name G hands
\* to the sink exactly the native quads whose graph name equals G by value
\* (None matching the default graph only), as triples of the quad's subject,
\* predicate and object, in the same number; a quad of another graph is
\* dropped and causes no error.
C2_QuadsFilteredByGraph ==
    TripleSourceOverQuadEngine =>
        LET G == parser.request.graph_iri
            matching == SelectSeq(engine.emitted, LAMBDA q : SameGraphName(q.g, G))
        IN /\ sunk = [i \in 1..Len(matching) |-> TripleOf(matching[i])]
           /\ Len(sunk) =
                  Cardinality({i \in 1..Len(engine.emitted) :
                                  SameGraphName(engine.emitted[i].g, G)})
           /\ last.result.tag \in {"SourceError", "SinkError"} =>
                  \/ last.script.engine_error # <<>>
                  \/ /\ last.script.sink_err_at \in 1..last.script.emitted
                     /\ SameGraphName(LastEmitted[last.script.sink_err_at].g, G)

C2_Witness ==
    /\ TripleSourceOverQuadEngine
    /\ parser.request.graph_iri # <<>>
    /\ Len(engine.emitted) = 3
    /\ Len(sunk) = 2
    /\ sunk[1] # sunk[2]
    /\ last.result = [tag |-> "Ok", val |-> FALSE]

\* C3: a quad source over a triple engine with configured graph name G hands
\* every native triple to the sink as exactly one quad, with the triple's
\* subject, predicate and object and with graph name G (none when G is None).
C3_TriplesPlacedInGraph ==
    QuadSourceOverTripleEngine =>
        /\ Len(sunk) = Len(engine.emitted)
        /\ \A i \in 1..Len(sunk) :
               sunk[i] = QuadOf(engine.emitted[i], parser.request.graph_iri)

C3_Witness ==
    /\ QuadSourceOverTripleEngine
    /\ parser.request.graph_iri # <<>>
    /\ Len(engine.emitted) = 2
    /\ engine.emitted[1] # engine.emitted[2]
    /\ Len(sunk) = 2
    /\ last.result = [tag |-> "Ok", val |-> FALSE]

ResolvesTo(key, syntax_, is_total) ==
    resolution.key = key =>
        resolution.result =
            [tag |-> "Ok", val |-> [value |-> syntax_, is_total |-> is_total]]

\* C4: the secondary extensions nquads, ntriples, rdfxml, owx and turtle
\* resolve to the syntax of nq, nt, rdf, owl and ttl respectively, totally.
C4_SecondaryExtensions ==
    resolution.kind = "extension" =>
        /\ ResolvesTo("nquads", "N-Quads", TRUE)
        /\ ResolvesTo("ntriples", "N-Triples", TRUE)
        /\ ResolvesTo("rdfxml", "RDF/XML", TRUE)
        /\ ResolvesTo("owx", "OWL2 XML", TRUE)
        /\ ResolvesTo("turtle", "Turtle", TRUE)

\* C5: every canonical extension resolves to the syntax of its row of the
\* canonical table; the correspondence is partial exactly for html and xhtml,
\* and json resolves to JSON-LD partially.
C5_CanonicalExtensions ==
    resolution.kind = "extension" =>
        /\ ResolvesTo("ttl", "Turtle", TRUE)
        /\ ResolvesTo("nt", "N-Triples", TRUE)
        /\ ResolvesTo("nq", "N-Quads", TRUE)
        /\ ResolvesTo("trig", "TriG", TRUE)
        /\ ResolvesTo("rdf", "RDF/XML", TRUE)
        /\ ResolvesTo("jsonld", "JSON-LD", TRUE)
        /\ ResolvesTo("html", "HTML+RDFa", FALSE)
        /\ ResolvesTo("xhtml", "XHTML+RDFa", FALSE)
        /\ ResolvesTo("omn", "OWL2 Manchester", TRUE)
        /\ ResolvesTo("owl", "OWL2 XML", TRUE)
        /\ ResolvesTo("n3", "Notation3", TRUE)
        /\ ResolvesTo("json", "JSON-LD", FALSE)

C5_Witness ==
    /\ resolution.kind = "extension"
    /\ resolution.key = "ttl"
    /\ resolution.result.tag = "Ok"
    /\ resolution.result.val.value = "Turtle"

MediaType(essence) == [essence |-> essence, params |-> ""]

\* C6: every canonical media type resolves to the syntax of its row of the
\* canonical table; the correspondence is partial exactly for text/html and
\* application/xhtml+xml.
C6_CanonicalMediaTypes ==
    resolution.kind = "media_type" =>
        /\ ResolvesTo(MediaType("text/turtle"), "Turtle", TRUE)
        /\ ResolvesTo(MediaType("application/n-triples"), "N-Triples", TRUE)
        /\ ResolvesTo(MediaType("application/n-quads"), "N-Quads", TRUE)
        /\ ResolvesTo(MediaType("application/trig"), "TriG", TRUE)
        /\ ResolvesTo(MediaType("application/rdf+xml"), "RDF/XML", TRUE)
        /\ ResolvesTo(MediaType("application/ld+json"), "JSON-LD", TRUE)
        /\ ResolvesTo(MediaType("text/html"), "HTML+RDFa", FALSE)
        /\ ResolvesTo(MediaType("application/xhtml+xml"), "XHTML+RDFa", FALSE)
        /\ ResolvesTo(MediaType("text/owl-manchester"), "OWL2 Manchester", TRUE)
        /\ ResolvesTo(MediaType("application/owl+xml"), "OWL2 XML", TRUE)
        /\ ResolvesTo(MediaType("text/n3"), "Notation3", TRUE)

C6_Witness ==
    /\ resolution.kind = "media_type"
    /\ resolution.key = MediaType("application/owl+xml")
    /\ resolution.result.tag = "Ok"
    /\ resolution.result.val.value = "OWL2 XML"

\* C7: a resolution fails exactly when its key is not a key of the table; the
\* error then carries the key as given and there is no syntax; otherwise the
\* entry stored in the table is the result.
C7_ResolutionFailsOnAbsentKeyOnly ==
    /\ resolution.kind = "extension" =>
           LET map == tables.extension_to_syntax.map
           IN IF resolution.key \in DOMAIN map
              THEN resolution.result = [tag |-> "Ok", val |-> map[resolution.key]]
              ELSE resolution.result =
                       [tag |-> "Err",
                        val |-> [error |-> "NonRdfFileExtensionError",
                                 key |-> resolution.key]]
    /\ resolution.kind = "media_type" =>
           LET map == tables.media_type_to_syntax.map
           IN IF resolution.key \in DOMAIN map
              THEN resolution.result = [tag |-> "Ok", val |-> map[resolution.key]]
              ELSE resolution.result =
                       [tag |-> "Err",
                        val |-> [error |-> "NonRdfMediaTypeError",
                                 key |-> resolution.key]]

C7_Witness ==
    /\ resolution.kind = "media_type"
    /\ resolution.key = MediaType("application/pdf")
    /\ resolution.result.tag = "Err"
    /\ tables.media_type_to_syntax.init
    /\ tables.extension_to_syntax.init

\* The syntaxes that have a writing engine, per statement shape.
QuadWriterSyntaxes == {"N-Quads", "TriG"}

TripleWriterSyntaxes == {"N-Triples", "Turtle", "RDF/XML"}

\* C8: try_new_serializer and try_new_stringifier of the quad factory succeed
\* exactly for N-Quads and TriG, those of the triple factory exactly for
\* N-Triples, Turtle and RDF/XML; for any other syntax the result is an
\* UnKnownSyntaxError that carries the requested syntax.
C8_SerializerConstruction ==
    serializer.request.method # "none" =>
        LET writers == IF factory.type = "DynSynQuadSerializerFactory"
                       THEN QuadWriterSyntaxes ELSE TripleWriterSyntaxes
        IN /\ serializer.result.tag = "Ok" <=> serializer.request.syntax \in writers
           /\ serializer.result.tag # "Ok" =>
                  serializer.result =
                      [tag |-> "Err",
                       val |-> [error |-> "UnKnownSyntaxError",
                                syntax |-> serializer.request.syntax]]

C8_Witness ==
    /\ factory.type = "DynSynQuadSerializerFactory"
    /\ serializer.request.method = "try_new_stringifier"
    /\ serializer.request.syntax = "Turtle"
    /\ serializer.result.tag = "Err"

\* C9: once a pull on a source has returned a source error, the source hands
\* no further statement to a sink.
C9_NothingDeliveredAfterSourceError ==
    [][(failed /\ failed') => sunk' = sunk]_vars

\* C10: the adapters keep the error classes apart, for every engine: a failure
\* of the engine is returned as a source error that wraps the engine's error
\* in the unified parse error, a failure of the sink is returned as a sink
\* error that holds the sink's error as it is, and a success is returned as
\* it is.
C10_ErrorClassesKept ==
    /\ last.raw.tag = "SourceError" =>
           /\ last.script.engine_error = <<last.raw.val>>
           /\ last.result =
                  [tag |-> "SourceError",
                   val |-> [variant |-> IF source.inner_source = "FRdfXml"
                                        THEN "RdfXml" ELSE "Turtle",
                            inner |-> last.raw.val]]
    /\ last.raw.tag = "SinkError" =>
           /\ last.script.sink_err = <<last.raw.val>>
           /\ last.result = [tag |-> "SinkError", val |-> last.raw.val]
    /\ last.raw.tag = "Ok" => last.result = last.raw
    /\ last.result.tag = "SourceError" => last.script.engine_error # <<>>
    /\ last.result.tag = "SinkError" => last.script.sink_err_at > 0

C10_Witness ==
    /\ source.inner_source = "FRdfXml"
    /\ last.result.tag = "SinkError"
    /\ last.script.sink_err # <<>>
    /\ last.result.val = last.script.sink_err[1]

\* C11: a pull that returns Ok(true) has handed at least one adapted statement
\* to the sink, also when the quads of a quad engine are filtered by graph
\* name.  Stated for the pulls in which the engine produced a statement, so
\* that a step of the engine over a blank line or a comment does not count.
C11_PullForwardsOrExhausts ==
    [][(/\ PullStep
        /\ Len(engine'.emitted) > Len(engine.emitted)
        /\ last'.result = [tag |-> "Ok", val |-> TRUE])
           => Len(sunk') > Len(sunk)]_vars

\* The caller replaced a source it had pulled from by a fresh one.
\* The last pull ended the source or failed.
PullsSettled ==
    \/ last.result = [tag |-> "Ok", val |-> FALSE]
    \/ last.result.tag \in {"SourceError", "SinkError"}

\* C12: a source over a finite document is finite and not restartable: a pull
\* returns Ok(false) exactly when the wrapped engine is at the end of its
\* input; after an Ok(false) every later pull on the source returns Ok(false)
\* and hands nothing to the sink; and on a source that is not replaced,
\* repeated pulls eventually return Ok(false) or an error (again and again
\* the source is settled, unless it has just been replaced by a new parse).
C12_SourceFiniteNotRestartable ==
    /\ [][PullStep =>
              (last'.result = [tag |-> "Ok", val |-> FALSE] <=> engine.is_end)]_vars
    /\ [][(last'.result.tag # "None" /\ last.result = [tag |-> "Ok", val |-> FALSE]) =>
              /\ last'.result = [tag |-> "Ok", val |-> FALSE]
              /\ sunk' = sunk
              /\ engine' = engine]_vars
    /\ []<>(source.type = "none" \/ last = NoPull \/ PullsSettled)

\* The end of a quad document all of whose quads were filtered out, after
\* pulls that forwarded nothing.
C12_Witness ==
    /\ TripleSourceOverQuadEngine
    /\ Len(engine.emitted) = 2
    /\ sunk = <<>>
    /\ engine.is_end
    /\ last.result = [tag |-> "Ok", val |-> FALSE]

QuadSourceOverQuadEngine ==
    source.type = "DynSynQuadSource" /\ source.inner_source \in {"FNQuads", "FTriG"}

TripleSourceOverTripleEngine ==
    /\ source.type = "DynSynTripleSource"
    /\ source.inner_source \in {"FNTriples", "FTurtle", "FRdfXml"}

\* The graph name of a native quad in the caller's term type.
GraphNameOf(q) == IF q.g = <<>> THEN <<>> ELSE <<InT(q.g[1])>>

\* C13: when the requested shape is the engine's native shape, every native
\* statement is handed to the sink exactly once, in the caller's term type,
\* with the native subject, predicate and object; a native quad keeps its own
\* graph name (or none), whatever graph name the parser was configured with.
C13_NativeShapePassedThrough ==
    /\ QuadSourceOverQuadEngine =>
           /\ Len(sunk) = Len(engine.emitted)
           /\ \A i \in 1..Len(sunk) :
                  sunk[i] = [spo |-> TripleOf(engine.emitted[i]),
                             g |-> GraphNameOf(engine.emitted[i])]
    /\ TripleSourceOverTripleEngine =>
           /\ Len(sunk) = Len(engine.emitted)
           /\ \A i \in 1..Len(sunk) : sunk[i] = TripleOf(engine.emitted[i])

\* A quad source configured with graph g1 that has forwarded a quad of the
\* default graph and a quad of graph g2.
C13_Witness ==
    /\ QuadSourceOverQuadEngine
    /\ parser.request.graph_iri = <<[kind |-> "iri", value |-> "g1", repr |-> "T"]>>
    /\ Len(sunk) = 2
    /\ sunk[1].g = <<>>
    /\ sunk[2].g = <<[kind |-> "iri", value |-> "g2", repr |-> "T"]>>

\* The canonical table: syntax, canonical extension, canonical media type.
CanonicalTable ==
    { <<"Turtle", "ttl", "text/turtle">>,
      <<"N-Triples", "nt", "application/n-triples">>,
      <<"N-Quads", "nq", "application/n-quads">>,
      <<"TriG", "trig", "application/trig">>,
      <<"RDF/XML", "rdf", "application/rdf+xml">>,
      <<"JSON-LD", "jsonld", "application/ld+json">>,
      <<"HTML+RDFa", "html", "text/html">>,
      <<"XHTML+RDFa", "xhtml", "application/xhtml+xml">>,
      <<"OWL2 Manchester", "omn", "text/owl-manchester">>,
      <<"OWL2 XML", "owl", "application/owl+xml">>,
      <<"Notation3", "n3", "text/n3">> }

KnownSyntaxes == { row[1] : row \in CanonicalTable }

\* C14: the syntax-to-extension map and the syntax-to-media-type map have
\* exactly one entry for each of the 11 known syntaxes and no other entry, and
\* the entry of a syntax holds the canonical extension, respectively the
\* canonical media type, of the syntax's row of the canonical table; a lookup
\* of a known syntax returns that entry.
C14_ReverseMapsTotal ==
    /\ Cardinality(KnownSyntaxes) = 11
    /\ tables.syntax_to_extension.init =>
           LET map == tables.syntax_to_extension.map
           IN /\ DOMAIN map = KnownSyntaxes
              /\ \A row \in CanonicalTable : map[row[1]].value = row[2]
    /\ tables.syntax_to_media_type.init =>
           LET map == tables.syntax_to_media_type.map
           IN /\ DOMAIN map = KnownSyntaxes
              /\ \A row \in CanonicalTable : map[row[1]].value = MediaType(row[3])
    /\ resolution.kind = "syntax_to_extension" =>
           \A row \in CanonicalTable :
               resolution.key = row[1] =>
                   /\ resolution.result # <<>>
                   /\ resolution.result[1].value = row[2]
    /\ resolution.kind = "syntax_to_media_type" =>
           \A row \in CanonicalTable :
               resolution.key = row[1] =>
                   /\ resolution.result # <<>>
                   /\ resolution.result[1].value = MediaType(row[3])

C14_Witness ==
    /\ resolution.kind = "syntax_to_media_type"
    /\ resolution.key = "N-Triples"
    /\ resolution.result # <<>>
    /\ resolution.result[1].value = MediaType("application/n-triples")
    /\ tables.syntax_to_extension.init
    /\ tables.syntax_to_extension.map["Turtle"].value = "ttl"

\* The configuration type of the engine that writes a syntax.
ConfigTypeOf(syntax_) ==
    CASE syntax_ = "N-Quads" -> "NqConfig"
      [] syntax_ = "TriG" -> "TrigConfig"
      [] syntax_ = "N-Triples" -> "NtConfig"
      [] syntax_ = "Turtle" -> "TurtleConfig"
      [] syntax_ = "RDF/XML" -> "RdfXmlConfig"

\* C15: a serializer built for a syntax holds the configuration registered in
\* the factory's registry under the configuration type of the syntax's engine
\* when there is one, and the default configuration of that type otherwise
\* (so also with an empty registry); what is registered under the other types
\* does not enter.
C15_RegisteredConfigOrDefault ==
    serializer.result.tag = "Ok" =>
        LET T == ConfigTypeOf(serializer.request.syntax)
            registry == factory.serializer_config_map
        IN serializer.result.val.config =
               IF T \in DOMAIN registry THEN registry[T]
               ELSE [type |-> T, pretty |-> FALSE]

\* A TriG serializer that holds the registered pretty configuration, from a
\* registry that also holds another configuration for Turtle.
C15_Witness ==
    /\ serializer.result.tag = "Ok"
    /\ serializer.request.syntax = "TriG"
    /\ DOMAIN factory.serializer_config_map = {"TrigConfig", "TurtleConfig"}
    /\ ~factory.serializer_config_map["TurtleConfig"].pretty
    /\ factory.serializer_config_map["TrigConfig"].pretty
    /\ serializer.result.val.config = [type |-> "TrigConfig", pretty |-> TRUE]

\* Renaming of blank nodes in a term, a triple and a quad.
RenamedTerm(t, f) == IF t.kind = "bnode" THEN [t EXCEPT !.value = f[t.value]] ELSE t

RenamedTriple(t, f) ==
    <<RenamedTerm(t[1], f), RenamedTerm(t[2], f), RenamedTerm(t[3], f)>>

RenamedQuad(q, f) ==
    [spo |-> RenamedTriple(q.spo, f),
     g |-> IF q.g = <<>> THEN <<>> ELSE <<RenamedTerm(q.g[1], f)>>]

\* Two statement sets are isomorphic: equal up to a renaming of blank nodes.
Isomorphic(A, B, quads) ==
    \E f \in Permutations(BNodeLabels \cup {"riog1"}) :
        { IF quads THEN RenamedQuad(st, f) ELSE RenamedTriple(st, f) : st \in A } = B

C17_ExtensionsCaseSensitive ==
    resolution.kind = "extension" =>
        LET keys == DOMAIN tables.extension_to_syntax.map
        IN /\ resolution.key = resolution.given
           /\ resolution.result.tag = "Ok" <=> resolution.given \in keys
           /\ (resolution.given \notin keys /\ to_lowercase(resolution.given) \in keys) =>
                  resolution.result =
                      [tag |-> "Err",
                       val |-> [error |-> "NonRdfFileExtensionError",
                                key |-> resolution.given]]

C17_Witness ==
    /\ resolution.kind = "extension"
    /\ resolution.given = "TTL"
    /\ "ttl" \in DOMAIN tables.extension_to_syntax.map
    /\ resolution.result.tag = "Err"

\* The document the engine of the serializer in use writes for the input of
\* the last serialize call, when nothing fails.
WholeDocument ==
    LET self == serializer.result.val
        doc == CASE self.variant = "NQuads" ->
                        NqSerializer_document(self.config, written.input)
                 [] self.variant = "Trig" ->
                        TrigSerializer_document(self.config, written.input)
                 [] self.variant = "NTriples" ->
                        NtSerializer_document(self.config, written.input)
                 [] self.variant = "Turtle" ->
                        TurtleSerializer_document(self.config, written.input)
                 [] self.variant = "RdfXml" ->
                        RdfXmlSerializer_document(self.config, written.input)
    IN doc.head \o doc.body \o doc.tail

\* C18: serialize_quads / serialize_triples returns Ok (the serializer) exactly
\* when the engine's serialize returns Ok and otherwise the engine's error as
\* it is: a failure of the writer is a sink error holding the writer's
\* io::Error, a failure of the statement source is a source error holding the
\* source's error; what was written before the failure stays written, once.
C18_SerializeErrorsUnchanged ==
    written.result.tag # "None" =>
        LET bytes == serializer.result.val.write.bytes
        IN /\ written.result.tag = "Ok" <=> written.raw.tag = "Ok"
           /\ written.result.tag = "Ok" =>
                  /\ written.result.val = "self"
                  /\ bytes = WholeDocument
           /\ written.result.tag # "Ok" => written.result = written.raw
           /\ written.result.tag = "SinkError" =>
                  /\ written.result.val \in IoErrors
                  /\ written.io_err_at > 0
                  /\ bytes = SubSeq(WholeDocument, 1, written.io_err_at - 1)
           /\ written.result.tag = "SourceError" =>
                  /\ written.result.val \in SourceErrors
                  /\ written.source_fails
                  /\ bytes = SubSeq(WholeDocument, 1, Len(bytes))
           /\ written.result.tag \in {"Ok", "SinkError", "SourceError"}

\* The writer failed at the third chunk of an RDF/XML document: the first
\* two chunks stay written.
C18_Witness ==
    /\ written.result.tag = "SinkError"
    /\ written.result.val \in IoErrors
    /\ serializer.result.val.variant = "RdfXml"
    /\ Len(serializer.result.val.write.bytes) = 2

\* The value a table has once its initialiser has run.
FullTable(table) ==
    CASE table = "extension_to_syntax" -> EXTENSION_TO_SYNTAX_CORRESPONDENCE
      [] table = "media_type_to_syntax" -> MEDIA_TYPE_TO_SYNTAX_CORRESPONDENCE
      [] table = "syntax_to_extension" -> SYNTAX_TO_EXTENSION_CORRESPONDENCE
      [] table = "syntax_to_media_type" -> SYNTAX_TO_MEDIA_TYPE_CORRESPONDENCE

\* The tables are as safe as the claim says in every state threads reach.
TablesSafe ==
    \A table \in TableNames :
        /\ runs[table] <= 1
        /\ tables[table].init <=> runs[table] = 1
        /\ tables[table].map =
               (IF tables[table].init THEN FullTable(table) ELSE HashMap_new)
        /\ \A t \in Threads :
               (threads[t].pc = "done" /\ threads[t].table = table) =>
                   /\ threads[t].seen = FullTable(table)
                   /\ threads[t].result =
                          Some(LookupIn(table, FullTable(table), threads[t].key))

\* C19: under concurrent use each of the four tables is initialised exactly
\* once, no thread ever looks up in a partially populated table, every lookup
\* returns what it returns single-threaded, and a table that has been
\* initialised is never modified again.
C19_TablesSafeUnderConcurrentUse ==
    /\ []TablesSafe
    /\ [][\A table \in TableNames :
              tables[table].init => tables'[table] = tables[table]]_vars

\* Two threads have looked up in the same table, one of them after waiting
\* for the other to finish the initialiser.
C19_Witness ==
    \E table \in TableNames :
        /\ runs[table] = 1
        /\ \A t \in Threads : threads[t].pc = "done" /\ threads[t].table = table
        /\ \E t \in Threads : threads[t].waited

\* The error type of the engine behind each variant of the inner source.
EngineErrorType(inner_source) ==
    CASE inner_source \in {"FNQuads", "FNTriples", "FTurtle", "FTriG"} -> "TurtleError"
      [] inner_source = "FRdfXml" -> "RdfXmlError"

\* C20: the conversion of engine errors into the unified parse error is total
\* and lossless: an error of the N-Quads, N-Triples, Turtle or TriG engine
\* comes back in the Turtle variant and an error of the RDF/XML engine in the
\* RdfXml variant, the wrapped value is the engine's error itself, and the
\* unified error displays as the engine's error does.
C20_ErrorConversionTotalAndLossless ==
    (source.type # "none" /\ last.script.engine_error # None) =>
        LET e == last.script.engine_error[1]
        IN /\ e.type = EngineErrorType(source.inner_source)
           /\ last.result.tag = "SourceError"
           /\ last.result.val.variant =
                  (IF e.type = "TurtleError" THEN "Turtle" ELSE "RdfXml")
           /\ last.result.val.inner = e
           /\ SomeHowParseError_fmt(last.result.val) = Error_fmt(e)
           /\ \A other \in TurtleErrors \cup RdfXmlErrors :
                  other # e => SomeHowParseError_fmt(last.result.val) # Error_fmt(other)

\* The RDF/XML engine has failed with its second error and the pull has
\* returned it.
C20_Witness ==
    /\ source.inner_source = "FRdfXml"
    /\ last.script.engine_error = Some([type |-> "RdfXmlError", id |-> 2])
    /\ last.result.tag = "SourceError"

\* C21: media-type resolution is determined by type and subtype: a media type
\* that carries parameters resolves to the same syntax and totality flag as
\* the media type of the same type and subtype without parameters, and fails
\* only when that type/subtype is not a key of the table.
C21_ParametersIgnoredInResolution ==
    resolution.kind = "media_type" =>
        LET map == tables.media_type_to_syntax.map
            bare == Mime(resolution.given.essence, "")
        IN IF bare \in DOMAIN map
           THEN resolution.result = [tag |-> "Ok", val |-> map[bare]]
           ELSE resolution.result.tag = "Err"

\* What a source hands to the sink for one native statement: nothing for a
\* quad the graph filter drops, one adapted statement otherwise.
ForwardedBy(src, st) ==
    CASE src.type = "DynSynQuadSource" /\ src.inner_source \in QuadVariants ->
             << [spo |-> TripleOf(st),
                 g |-> IF st.g = <<>> THEN <<>> ELSE <<InT(st.g[1])>>] >>
      [] src.type = "DynSynQuadSource" /\ src.inner_source \in TripleVariants ->
             << QuadOf(st, src.graph_iri) >>
      [] src.type = "DynSynTripleSource" /\ src.inner_source \in QuadVariants ->
             IF SameGraphName(st.g, src.graph_iri) THEN << TripleOf(st) >> ELSE <<>>
      [] src.type = "DynSynTripleSource" /\ src.inner_source \in TripleVariants ->
             << TripleOf(st) >>

RECURSIVE ForwardedAll(_, _)
ForwardedAll(src, stmts) ==
    IF stmts = <<>> THEN <<>>
    ELSE ForwardedBy(src, Head(stmts)) \o ForwardedAll(src, Tail(stmts))

\* C22: the adapter reads nothing ahead and buffers nothing: a pull on a
\* source makes one pull on the wrapped engine, every native statement the
\* engine produced in that pull is forwarded to the sink or dropped before the
\* pull returns, and between pulls the source holds nothing but its engine
\* and its constant graph name.
C22_NoReadAheadNoBuffering ==
    [][PullStep =>
          LET new == SubSeq(engine'.emitted, Len(engine.emitted) + 1,
                            Len(engine'.emitted))
              delivered == SubSeq(sunk', Len(sunk) + 1, Len(sunk'))
          IN /\ source' = source
             /\ DOMAIN source = {"type", "inner_source", "graph_iri"}
             /\ Len(new) = last'.script.emitted
             /\ Len(new) <= MaxBatch
             /\ SubSeq(engine'.emitted, 1, Len(engine.emitted)) = engine.emitted
             /\ SubSeq(sunk', 1, Len(sunk)) = sunk
             /\ delivered = ForwardedAll(source, new)
             /\ engine.is_end => (new = <<>> /\ delivered = <<>>)]_vars

\* A pull on a triple source over a quad engine in which the engine produced
\* two quads: one was forwarded, the other dropped, and the pull returned
\* with more input to come.
C22_Witness ==
    /\ TripleSourceOverQuadEngine
    /\ last.result = [tag |-> "Ok", val |-> TRUE]
    /\ last.script.emitted = 2
    /\ Len(engine.emitted) = 2
    /\ Len(sunk) = 1
    /\ ~engine.is_end

\* The statement at which the sink was set to fail in the last pull, if the
\* engine got that far.
FailingStatement ==
    IF last.script.sink_err_at \in 1..last.script.emitted
    THEN Some(LastEmitted[last.script.sink_err_at])
    ELSE None

\* C23: a failure of the sink aborts the pull at once: the statement the sink
\* failed on is the last one the engine produced and the last one handed to
\* the sink in that pull, it was handed over once, and the pull returns the
\* sink's error; a quad the graph filter drops never reaches the sink, so the
\* sink cannot fail on it.
C23_SinkFailureAbortsPull ==
    source.type # "none" =>
        /\ last.result.tag = "SinkError" =>
               /\ FailingStatement # None
               /\ last.script.sink_err_at = last.script.emitted
               /\ ForwardedBy(source, FailingStatement[1]) # <<>>
               /\ sunk # <<>>
               /\ sunk[Len(sunk)] = ForwardedBy(source, FailingStatement[1])[1]
               /\ LET handed == ForwardedAll(source, LastEmitted)
                  IN /\ Len(handed) <= Len(sunk)
                     /\ SubSeq(sunk, Len(sunk) - Len(handed) + 1, Len(sunk)) = handed
               /\ last.result.val = last.script.sink_err[1]
        /\ (FailingStatement # None /\ ForwardedBy(source, FailingStatement[1]) # <<>>) =>
               last.result.tag = "SinkError"
        /\ (FailingStatement # None /\ ForwardedBy(source, FailingStatement[1]) = <<>>) =>
               last.result.tag # "SinkError"

\* The sink failed on the one quad of a pull, a quad of the configured graph;
\* of the three quads the engine has produced, one was dropped by the filter.
C23_Witness ==
    /\ TripleSourceOverQuadEngine
    /\ last.result.tag = "SinkError"
    /\ last.script.sink_err_at = 1
    /\ last.script.emitted = 1
    /\ Len(engine.emitted) = 3
    /\ Len(sunk) = 2

\* C24: adaptation keeps the order: what a quad source has handed to the sink
\* is the engine's sequence of native statements adapted one by one, what a
\* triple source over a quad engine has handed over is the subsequence of the
\* native quads of the configured graph, in the engine's order; nothing is
\* handed over twice or out of order, and what has been handed over stays in
\* front of what follows.
C24_OrderPreserved ==
    /\ [](source.type # "none" =>
             /\ sunk = ForwardedAll(source, engine.emitted)
             /\ source.type = "DynSynQuadSource" =>
                    /\ Len(sunk) = Len(engine.emitted)
                    /\ \A i \in 1..Len(sunk) :
                           sunk[i].spo = TripleOf(engine.emitted[i]))
    /\ [][PullStep =>
              /\ Len(sunk') >= Len(sunk)
              /\ SubSeq(sunk', 1, Len(sunk)) = sunk]_vars

\* A triple source has handed over two different triples, the first and the
\* third quad of the engine, with a quad of another graph dropped between
\* them.
C24_Witness ==
    /\ TripleSourceOverQuadEngine
    /\ Len(engine.emitted) = 3
    /\ Len(sunk) = 2
    /\ ForwardedBy(source, engine.emitted[2]) = <<>>
    /\ sunk[1] = TripleOf(engine.emitted[1])
    /\ sunk[2] = TripleOf(engine.emitted[3])
    /\ sunk[1] # sunk[2]

\* The syntax a resolution result names, if it names one.
ResolvedSyntax(result) == IF result.tag = "Ok" THEN Some(result.val.value) ELSE None

\* C25: the forward and the reverse tables agree: for every known syntax s,
\* the extension stored for s in the syntax-to-extension table resolves to s
\* and the media type stored for s in the syntax-to-media-type table resolves
\* to s.
C25_ForwardAndReverseConsistent ==
    /\ (tables.syntax_to_extension.init /\ tables.extension_to_syntax.init) =>
           /\ DOMAIN tables.syntax_to_extension.map = KnownSyntaxes
           /\ \A s \in DOMAIN tables.syntax_to_extension.map :
                  ResolvedSyntax(try_from_file_extension(
                                     tables.extension_to_syntax.map,
                                     tables.syntax_to_extension.map[s].value)) = Some(s)
    /\ (tables.syntax_to_media_type.init /\ tables.media_type_to_syntax.init) =>
           /\ DOMAIN tables.syntax_to_media_type.map = KnownSyntaxes
           /\ \A s \in DOMAIN tables.syntax_to_media_type.map :
                  ResolvedSyntax(try_from_media_type(
                                     tables.media_type_to_syntax.map,
                                     tables.syntax_to_media_type.map[s].value)) = Some(s)
    /\ (resolution.kind = "extension" /\ tables.syntax_to_extension.init) =>
           \A s \in DOMAIN tables.syntax_to_extension.map :
               tables.syntax_to_extension.map[s].value = resolution.key =>
                   ResolvedSyntax(resolution.result) = Some(s)
    /\ (resolution.kind = "media_type" /\ tables.syntax_to_media_type.init) =>
           \A s \in DOMAIN tables.syntax_to_media_type.map :
               tables.syntax_to_media_type.map[s].value = resolution.key =>
                   ResolvedSyntax(resolution.result) = Some(s)

\* All four tables are there and the media type stored for TriG has just
\* been resolved.
C25_Witness ==
    /\ \A table \in TableNames : tables[table].init
    /\ resolution.kind = "media_type"
    /\ resolution.key = tables.syntax_to_media_type.map[syntax_TRIG].value
    /\ ResolvedSyntax(resolution.result) = Some(syntax_TRIG)

\* The declared insertions of the extension-to-syntax table, last first.
InsertionsLastFirst ==
    [i \in 1..Len(EXTENSION_TO_SYNTAX_ROWS) |->
        EXTENSION_TO_SYNTAX_ROWS[Len(EXTENSION_TO_SYNTAX_ROWS) + 1 - i]]

\* C26: the extension-to-syntax table is built from pairwise distinct keys:
\* no two FileExtension constants are the same string, no key is inserted
\* twice with different syntaxes, the table has one entry for each of the 17
\* declared insertions, and its content is the same in whatever order the
\* insertions are made.
C26_ExtensionKeysDistinct ==
    tables.extension_to_syntax.init =>
        LET rows == EXTENSION_TO_SYNTAX_ROWS
            map == tables.extension_to_syntax.map
        IN /\ Len(rows) = 17
           /\ \A i, j \in 1..Len(rows) :
                  (i # j /\ rows[i][1] = rows[j][1]) => rows[i][2] = rows[j][2]
           /\ \A i, j \in 1..Len(rows) : i # j => rows[i][1] # rows[j][1]
           /\ Cardinality(DOMAIN map) = 17
           /\ set_correspondence(HashMap_new, InsertionsLastFirst) = map

PartialForward == {syntax_HTML_RDFA, syntax_XHTML_RDFA}

\* C27: every entry of the two reverse tables is total, also the entries of
\* HTML+RDFa and XHTML+RDFa, whose forward entries (html, xhtml, text/html,
\* application/xhtml+xml) are not total: the totality of a reverse entry is
\* not the one of the forward entry.
C27_ReverseEntriesTotal ==
    /\ tables.syntax_to_extension.init =>
           /\ PartialForward \subseteq DOMAIN tables.syntax_to_extension.map
           /\ \A s \in DOMAIN tables.syntax_to_extension.map :
                  tables.syntax_to_extension.map[s].is_total
    /\ tables.syntax_to_media_type.init =>
           /\ PartialForward \subseteq DOMAIN tables.syntax_to_media_type.map
           /\ \A s \in DOMAIN tables.syntax_to_media_type.map :
                  tables.syntax_to_media_type.map[s].is_total
    /\ (tables.syntax_to_extension.init /\ tables.extension_to_syntax.init) =>
           \A s \in PartialForward :
               ~tables.extension_to_syntax.map[
                    tables.syntax_to_extension.map[s].value].is_total
    /\ (tables.syntax_to_media_type.init /\ tables.media_type_to_syntax.init) =>
           \A s \in PartialForward :
               ~tables.media_type_to_syntax.map[
                    tables.syntax_to_media_type.map[s].value].is_total
    /\ (resolution.kind \in {"syntax_to_extension", "syntax_to_media_type"}
            /\ resolution.result # None) =>
           resolution.result[1].is_total

\* The extension of HTML+RDFa has been looked up and is total, while the
\* forward table, which is there, has html as not total.
C27_Witness ==
    /\ resolution.kind = "syntax_to_extension"
    /\ resolution.key = syntax_HTML_RDFA
    /\ resolution.result = Some(Correspondent(fextn_HTML, TRUE))
    /\ tables.extension_to_syntax.init
    /\ ~tables.extension_to_syntax.map[fextn_HTML].is_total

\* The handle gave this source and the source has handed to its sink what its
\* own engine produced.
OwnSource(r) ==
    /\ r.source =
           [type |-> IF parser.result.val.type = "DynSynQuadParser"
                     THEN "DynSynQuadSource" ELSE "DynSynTripleSource",
            inner_source |->
                InnerStatementSource_from(parser.result.val.inner_parser.variant),
            graph_iri |-> parser.request.graph_iri]
    /\ r.sunk = ForwardedAll(r.source, r.engine.emitted)

\* C28: parse() never fails and leaves the handle as it is: through any
\* sequence of parse calls and pulls the handle keeps its engine variant and
\* its graph name, every source it returns carries that graph name, and a pull
\* on one of its sources changes nothing in another.
C28_ParseLeavesHandleUnchanged ==
    /\ [](\A i \in Slots : returned[i].source.type # "none" =>
              /\ parser.result.tag = "Ok"
              /\ parser.result.val.graph_iri = parser.request.graph_iri
              /\ OwnSource(returned[i]))
    /\ [][\A i \in Slots :
              returned'[i] # returned[i] =>
                  /\ parser' = parser
                  /\ returned'[i].source.type # "none"
                  /\ \A j \in Slots \ {i} : returned'[j] = returned[j]]_vars

\* Two sources of one triple parser with a graph name, over different quad
\* documents: each has been pulled and has handed over its own quad.
C28_Witness ==
    /\ parser.result.tag = "Ok"
    /\ parser.request.factory = "triples"
    /\ parser.request.graph_iri # None
    /\ \A i \in Slots :
           /\ returned[i].source.inner_source \in QuadVariants
           /\ Len(returned[i].sunk) = 1
    /\ returned[1].sunk # returned[2].sunk

\* The engine variant of the sources of a parser built for a syntax.
VariantOfSyntax(syntax_) ==
    CASE syntax_ = syntax_N_QUADS -> "FNQuads"
      [] syntax_ = syntax_TRIG -> "FTriG"
      [] syntax_ = syntax_N_TRIPLES -> "FNTriples"
      [] syntax_ = syntax_TURTLE -> "FTurtle"
      [] syntax_ = syntax_RDF_XML -> "FRdfXml"
      [] OTHER -> "none"

\* C29: the engine at work in a source is the one of the syntax the parser
\* was built for: FNQuads for N-Quads, FTriG for TriG, FNTriples for
\* N-Triples, FTurtle for Turtle and FRdfXml for RDF/XML, with the statements
\* of that engine; and the variant of a source stays the same through all
\* its pulls.
C29_EngineOfTheSyntax ==
    /\ [](source.type # "none" =>
             /\ parser.request.syntax \in ParserSyntaxes
             /\ source.inner_source = VariantOfSyntax(parser.request.syntax)
             /\ \A i \in 1..Len(engine.emitted) :
                    engine.emitted[i] \in
                        (IF parser.request.syntax \in {syntax_N_QUADS, syntax_TRIG}
                         THEN NativeQuads ELSE NativeTriples))
    /\ [][source.type # "none" => source'.inner_source = source.inner_source]_vars

\* A source of a parser built for Turtle that has been pulled and has got a
\* triple from the Turtle engine.
C29_Witness ==
    /\ parser.request.syntax = syntax_TURTLE
    /\ source.inner_source = "FTurtle"
    /\ last.result = [tag |-> "Ok", val |-> TRUE]
    /\ Len(engine.emitted) >= 1
    /\ Len(sunk) >= 1

====
